---- MODULE Spec2Model ----
(***************************************************************************)
(* The lazy reactive engine "ripplio" (src/tests/compare.reactive.coc.     *)
(* bench.ts, lines 304-1043) as a state machine.                           *)
(*                                                                         *)
(* The engine is single-threaded and synchronous: every public operation   *)
(* (a read, a write through a wrapper, a tracked scope, a subscription)    *)
(* runs to completion, nested evaluations included, before control         *)
(* returns.  Each operation is therefore one action; the nested calls it   *)
(* makes are operators that take the engine state as a record and return   *)
(* the state they leave behind together with the value returned or the     *)
(* fact that an exception was thrown.                                      *)
(*                                                                         *)
(* Strings are sequences of chunks (a chunk is a run of characters that    *)
(* the model never needs to look inside); "." is always a chunk of its     *)
(* own, so join, split and startsWith work on them as they do on the       *)
(* characters.  Numbers are fixed-point, counted in tenths (0.1 is 1, 50   *)
(* is 500): every product the scenarios form is exact in this unit, as it  *)
(* is in IEEE doubles for the same operands.                               *)
(*                                                                         *)
(* A statement sequence "const x = e; rest" is written With(e, LAMBDA x :  *)
(* rest), and Then(e, LAMBDA s, x : rest) when e may throw: the rest runs  *)
(* on the state s that e left and the value x it returned.                 *)
(***************************************************************************)
EXTENDS Integers, Sequences, FiniteSets, TLC

VARIABLES
    heap,                 \* the raw object graph: object id -> [arr, f]
    computedRegistry,     \* depKey -> [run, last, dirty]
    dependencyGraph,      \* tracker id -> set of DepKey
    dependencyOrder,      \* insertion order of the component ids of dependencyGraph
    proxyCache,           \* raw object id -> [store, base, nth] of the wrapper it maps to
    storeOfRoot,          \* raw object id -> the store createStore last made for it
    reverseRawToComp,     \* raw prefix -> set of computed keys
    computedRawDeps,      \* computed key -> set of raw keys
    computedChildDeps,    \* parent computed key -> set of child computed keys
    reverseCompToComp,    \* child computed key -> set of parent computed keys
    currentTracker,       \* the active scope, or NoTracker
    activeChildCapture,   \* _activeChildCapture
    componentSubscribers, \* store -> (component id -> callback)
    subscriberOrder,      \* store -> the component ids in the order of that Map
    views                 \* the bound snapshot views consumers hold

vars == << heap, computedRegistry, dependencyGraph, dependencyOrder, proxyCache,
           storeOfRoot, reverseRawToComp, computedRawDeps, computedChildDeps,
           reverseCompToComp, currentTracker, activeChildCapture, componentSubscribers,
           subscriberOrder, views >>

-----------------------------------------------------------------------------
(* Maps (Map, WeakMap, Record) are functions whose domain is the key set.  *)

EmptyMap == [x \in {} |-> {}]

Has(m, k) == k \in DOMAIN m

Put(m, k, v) == [x \in (DOMAIN m) \cup {k} |-> IF x = k THEN v ELSE m[x]]

Del(m, k) == [x \in (DOMAIN m) \ {k} |-> m[x]]

GetOr(m, k, d) == IF k \in DOMAIN m THEN m[k] ELSE d

Range(s) == { s[i] : i \in DOMAIN s }

-----------------------------------------------------------------------------
(* Strings and paths                                                       *)

Dot == "."

REF_COMPUTED_PREFIX == << "__computed__:" >>

StartsWith(s, p) == Len(p) <= Len(s) /\ SubSeq(s, 1, Len(p)) = p

RECURSIVE JoinDot(_)
JoinDot(segs) ==
    IF segs = << >> THEN << >>
    ELSE IF Len(segs) = 1 THEN segs[1]
    ELSE segs[1] \o << Dot >> \o JoinDot(Tail(segs))

keyOf(path) == JoinDot(path)

RECURSIVE SplitDot(_)
SplitDot(k) ==
    LET dots == { i \in 1..Len(k) : k[i] = Dot }
    IN  IF dots = {} THEN << k >>
        ELSE LET i == CHOOSE d \in dots : \A e \in dots : d <= e
             IN  << SubSeq(k, 1, i - 1) >> \o SplitDot(SubSeq(k, i + 1, Len(k)))

prefixesOf(k) ==
    IF k = << >> THEN << k >>
    ELSE LET segs == SplitDot(k)
         IN  [ i \in 1..Len(segs) |-> JoinDot(SubSeq(segs, 1, i)) ]

computedKeyForPath(absPath) == REF_COMPUTED_PREFIX \o absPath

Digit == << "0", "1", "2", "3", "4", "5", "6", "7", "8", "9" >>

RECURSIVE IndexKey(_)
IndexKey(i) ==
    IF i < 10 THEN << Digit[i + 1] >>
    ELSE IndexKey(i \div 10) \o << Digit[(i % 10) + 1] >>

LENGTH == << "length" >>

-----------------------------------------------------------------------------
(* Values.  Every value is a record [t, n, p] so that any two compare.     *)

Num(n)     == [t |-> "num",    n |-> n, p |-> << >>]
Whole(k)   == Num(10 * k)
StrVal(s)  == [t |-> "str",    n |-> 0, p |-> s]
Undefined  == [t |-> "undef",  n |-> 0, p |-> << >>]
Null       == [t |-> "null",   n |-> 0, p |-> << >>]
NaN        == [t |-> "nan",    n |-> 0, p |-> << >>]
Ref(o)     == [t |-> "ref",    n |-> o, p |-> << >>]   \* a raw object or array
ProxyOf(o) == [t |-> "proxy",  n |-> o, p |-> << >>]   \* the wrapper of raw object o
Getter     == [t |-> "getter", n |-> 0, p |-> << >>]   \* an accessor property
LiveRaw(root, path) == [t |-> "live", n |-> root, p |-> path] \* live primitive of a raw path
LiveComp(key)  == [t |-> "livec", n |-> 0, p |-> key]    \* live primitive of a computed

\* ref(value): the object { [REF_MARK]: true, value }, value the raw object o
ref(o) == [t |-> "marked", n |-> o, p |-> << >>]

isRef(value) == value.t = "marked"

isPrimitive(v) == v.t \in {"num", "str", "undef", "null", "nan"}

isObject(v) == v.t \in {"ref", "proxy"}

Times(a, b) == IF a.t = "num" /\ b.t = "num" THEN Num((a.n * b.n) \div 10) ELSE NaN

Plus(a, b) == IF a.t = "num" /\ b.t = "num" THEN Num(a.n + b.n) ELSE NaN

-----------------------------------------------------------------------------
(* Raw objects                                                             *)

IsArray(h, o) == h[o].arr

OwnProp(h, o, key) == IF key \in DOMAIN h[o].f THEN h[o].f[key] ELSE Undefined

ArrayLength(h, o) == h[o].f[LENGTH].n \div 10

IsIndexKey(key) == \E i \in 0..99 : IndexKey(i) = key

IndexOfKey(key) == CHOOSE i \in 0..99 : IndexKey(i) = key

\* Reflect.set / Reflect.defineProperty on a raw object or array
ReflectSet(h, o, key, v) ==
    IF ~h[o].arr THEN [h EXCEPT ![o].f = Put(@, key, v)]
    ELSE IF key = LENGTH THEN
        LET keep == { k \in DOMAIN h[o].f :
                        ~IsIndexKey(k) \/ IndexOfKey(k) < (v.n \div 10) }
        IN  [h EXCEPT ![o].f = [k \in keep |-> IF k = LENGTH THEN v ELSE h[o].f[k]]]
    ELSE IF IsIndexKey(key) /\ IndexOfKey(key) >= ArrayLength(h, o) THEN
        [h EXCEPT ![o].f = Put(Put(@, key, v), LENGTH, Whole(IndexOfKey(key) + 1))]
    ELSE [h EXCEPT ![o].f = Put(@, key, v)]

-----------------------------------------------------------------------------
(* Statement sequencing                                                    *)

\* const v = <expression>; rest
With(v, rest(_)) == rest(v)

RawRet(v) == [val |-> v, thrown |-> FALSE]

RawThrow == [val |-> Undefined, thrown |-> TRUE]

\* an exception thrown by r skips the rest and propagates
RawThen(r, rest(_)) == IF r.thrown THEN RawThrow ELSE rest(r.val)

Ret(st, v) == [st |-> st, val |-> v, thrown |-> FALSE]

Throw(st) == [st |-> st, val |-> Undefined, thrown |-> TRUE]

Then(r, rest(_, _)) == IF r.thrown THEN r ELSE rest(r.st, r.val)

\* the result of a raw read, as the result of a step that leaves st behind
FromRaw(st, r) == IF r.thrown THEN Throw(st) ELSE Ret(st, r.val)

-----------------------------------------------------------------------------
(* The getters of the state objects, called on the raw object (this = the  *)
(* raw object, no wrapper involved).  This is what a getter returns on the *)
(* data as it is now.  makeOurs, lines 29-41.                              *)

RECURSIVE RawGet(_, _, _)
RECURSIVE RawGetter(_, _, _)
RECURSIVE RawReduce(_, _, _, _)

\* v[key] in plain JavaScript
RawGet(h, v, key) ==
    IF v.t \in {"undef", "null"} THEN RawThrow
    ELSE IF isRef(v) THEN RawRet(IF key = << "value" >> THEN Ref(v.n) ELSE Undefined)
    ELSE IF v.t # "ref" THEN RawRet(Undefined)
    ELSE IF OwnProp(h, v.n, key).t = "getter" THEN RawGetter(h, v.n, key)
    ELSE RawRet(OwnProp(h, v.n, key))

\* arr.reduce((s, it) => s + it.price * it.qty, acc) from index k on
RawReduce(h, arr, k, acc) ==
    IF k >= ArrayLength(h, arr) THEN RawRet(acc)
    ELSE IF ~(IndexKey(k) \in DOMAIN h[arr].f) THEN RawReduce(h, arr, k + 1, acc)
    ELSE RawThen(RawGet(h, h[arr].f[IndexKey(k)], << "price" >>), LAMBDA price :
         RawThen(RawGet(h, h[arr].f[IndexKey(k)], << "qty" >>), LAMBDA qty :
             RawReduce(h, arr, k + 1, Plus(acc, Times(price, qty)))))

RawGetter(h, this, name) ==
    IF name = << "subtotal" >> THEN
        RawThen(RawGet(h, Ref(this), << "items" >>), LAMBDA items :
            IF items.t # "ref" THEN RawThrow
            ELSE IF ~IsArray(h, items.n) THEN RawThrow
            ELSE RawReduce(h, items.n, 0, Whole(0)))
    ELSE IF name = << "tax" >> THEN
        RawThen(RawGet(h, Ref(this), << "subtotal" >>), LAMBDA subtotal :
        RawThen(RawGet(h, Ref(this), << "taxRate" >>), LAMBDA taxRate :
            RawRet(Times(subtotal, taxRate))))
    ELSE IF name = << "total" >> THEN
        RawThen(RawGet(h, Ref(this), << "subtotal" >>), LAMBDA subtotal :
        RawThen(RawGet(h, Ref(this), << "tax" >>), LAMBDA tax :
            RawRet(Plus(subtotal, tax))))
    ELSE RawRet(Undefined)

\* getValueAtPath(obj, path): walks the raw graph from the root, by name
RECURSIVE getValueFrom(_, _, _)
getValueFrom(h, cur, path) ==
    IF path = << >> THEN RawRet(cur)
    ELSE IF cur.t # "ref" THEN RawRet(Undefined)
    ELSE RawThen(RawGet(h, cur, Head(path)), LAMBDA nxt :
             getValueFrom(h, nxt, Tail(path)))

getValueAtPath(h, root, path) == getValueFrom(h, Ref(root), path)

-----------------------------------------------------------------------------
(* Engine state as one record                                              *)

ComponentId(h) == [sym |-> TRUE, k |-> h]      \* a symbol: a UI subscriber

ComputedId(key) == [sym |-> FALSE, k |-> key]  \* a string: a computed key

NoTracker == [kind |-> "none", id |-> ComputedId(<< >>)]

ComponentTracker(id) == [kind |-> "component", id |-> id]

ComputedTracker(depKey) == [kind |-> "computed", id |-> ComputedId(depKey)]

NoCapture == [on |-> FALSE, parent |-> << >>]

\* what an operation did, noted while it runs: how often each evaluation
\* function ran, which computeds were read, the listeners called, the computeds
\* the passes marked, the scopes entered and left, the values read, the changed
\* keys of the invalidation passes in the order they ran, for every
\* evaluation that returned the dependency sets as they were then, and for
\* every pass the value the data held at the changed path when it started
NoObs ==
    [runs |-> EmptyMap, reads |-> {}, pings |-> << >>, affected |-> {},
     scopes |-> {}, results |-> << >>, passes |-> << >>, nested |-> {},
     data |-> << >>]

\* the engine state an operation starts from; frames holds the childCapture
\* set of every runComputed call in progress (none between operations); obs
\* is not program state
Engine ==
    [heap |-> heap, computedRegistry |-> computedRegistry,
     dependencyGraph |-> dependencyGraph, dependencyOrder |-> dependencyOrder,
     proxyCache |-> proxyCache, storeOfRoot |-> storeOfRoot,
     reverseRawToComp |-> reverseRawToComp,
     computedRawDeps |-> computedRawDeps, computedChildDeps |-> computedChildDeps,
     reverseCompToComp |-> reverseCompToComp, currentTracker |-> currentTracker,
     activeChildCapture |-> activeChildCapture,
     componentSubscribers |-> componentSubscribers,
     subscriberOrder |-> subscriberOrder, views |-> views,
     frames |-> EmptyMap, obs |-> NoObs]

NoteRun(st, depKey) == [st EXCEPT !.obs.runs = Put(@, depKey, GetOr(@, depKey, 0) + 1)]

NoteRead(st, depKey) == [st EXCEPT !.obs.reads = @ \cup {depKey}]

NoteResult(st, v) == [st EXCEPT !.obs.results = Append(@, v)]

NotePass(st, changedRaw) == [st EXCEPT !.obs.passes = Append(@, changedRaw)]

\* runComputed(depKey), called in state st, has just ended as r: the scope it
\* was called under, the dependency set of that scope at the call and now,
\* and the set of depKey now
NoteNested(st, depKey, r) ==
    [r EXCEPT !.st.obs.nested = @ \cup
        {[inner |-> depKey, outer |-> st.currentTracker, threw |-> r.thrown,
          before |-> GetOr(st.dependencyGraph, st.currentTracker.id, {}),
          after |-> GetOr(r.st.dependencyGraph, st.currentTracker.id, {}),
          own |-> GetOr(r.st.dependencyGraph, ComputedId(depKey), {})]}]

\* a pass of the store of `root` starts for path: what the data holds there
NoteData(st, root, path) ==
    [st EXCEPT !.obs.data = Append(@, [key |-> keyOf(path),
                                       val |-> getValueAtPath(st.heap, root, path).val])]

NoteScope(st, kind, saved, threw) ==
    [st EXCEPT !.obs.scopes = @ \cup
        {[kind |-> kind, saved |-> saved, restored |-> st.currentTracker, threw |-> threw]}]

-----------------------------------------------------------------------------
(* Dependency sets and the reverse indices                                 *)

setDepSet(st, id, deps) ==
    [st EXCEPT !.dependencyGraph = Put(@, id, deps),
               !.dependencyOrder = IF id.sym /\ ~(id \in Range(@)) THEN Append(@, id) ELSE @]

ensureDepSet(st, id) == IF Has(st.dependencyGraph, id) THEN st ELSE setDepSet(st, id, {})

addDeps(st, id, keys) == [ensureDepSet(st, id) EXCEPT !.dependencyGraph[id] = @ \cup keys]

\* ensureDepSet(currentTracker.id).add(key), when a scope is active
TrackIfActive(st, key) ==
    IF st.currentTracker # NoTracker THEN addDeps(st, st.currentTracker.id, {key}) ELSE st

\* variant: the reverse raw index is never filled
linkRawToComp_none(index, raw, compKey) == index

linkRawToComp(index, raw, compKey) == Put(index, raw, GetOr(index, raw, {}) \cup {compKey})

\* variant: an entry of the reverse raw index is never taken out
unlinkRawFromComp_none(index, raw, compKey) == index

unlinkRawFromComp(index, raw, compKey) ==
    IF ~Has(index, raw) THEN index
    ELSE IF index[raw] \ {compKey} = {} THEN Del(index, raw)
    ELSE Put(index, raw, index[raw] \ {compKey})

linkCompToComp(index, child, parent) == Put(index, child, GetOr(index, child, {}) \cup {parent})

unlinkCompToComp(index, child, parent) ==
    IF ~Has(index, child) THEN index
    ELSE IF index[child] \ {parent} = {} THEN Del(index, child)
    ELSE Put(index, child, index[child] \ {parent})

AllPrefixes(raws) == UNION { Range(prefixesOf(raw)) : raw \in raws }

\* for (const p of keys) unlinkRawFromComp(p, compKey): every step touches the
\* entry of its own key only, so the loop is the index taken key by key
UnlinkRawEach(index, keys, compKey) ==
    [k \in { x \in DOMAIN index :
                x \in keys => Has(unlinkRawFromComp(index, x, compKey), x) } |->
        IF k \in keys THEN unlinkRawFromComp(index, k, compKey)[k] ELSE index[k]]

\* for (const p of keys) linkRawToComp(p, compKey), in the same way
LinkRawEach(index, keys, compKey) ==
    [k \in DOMAIN index \cup { x \in keys : Has(linkRawToComp(index, x, compKey), x) } |->
        IF k \in keys THEN linkRawToComp(index, k, compKey)[k] ELSE index[k]]

reindexComputedRawDeps(st, depKey) ==
    [st EXCEPT
       !.reverseRawToComp =
           LinkRawEach(UnlinkRawEach(@, AllPrefixes(GetOr(st.computedRawDeps, depKey, {})),
                                     depKey),
                       AllPrefixes(GetOr(st.dependencyGraph, ComputedId(depKey), {})), depKey),
       !.computedRawDeps = Put(@, depKey, GetOr(st.dependencyGraph, ComputedId(depKey), {}))]

RECURSIVE UnlinkCompEach(_, _, _)
UnlinkCompEach(index, children, parent) ==
    IF children = {} THEN index
    ELSE With(CHOOSE x \in children : TRUE, LAMBDA c :
             UnlinkCompEach(unlinkCompToComp(index, c, parent), children \ {c}, parent))

RECURSIVE LinkCompEach(_, _, _)
LinkCompEach(index, children, parent) ==
    IF children = {} THEN index
    ELSE With(CHOOSE x \in children : TRUE, LAMBDA c :
             LinkCompEach(linkCompToComp(index, c, parent), children \ {c}, parent))

reindexComputedChildDeps(st, parent, newChildren) ==
    [st EXCEPT
       !.reverseCompToComp =
           LinkCompEach(UnlinkCompEach(@, GetOr(st.computedChildDeps, parent, {}), parent),
                        newChildren, parent),
       !.computedChildDeps = Put(@, parent, newChildren)]

\* variant: a new entry starts Clean
ensureComputed_clean(st, absPath, recv, name) ==
    IF Has(st.computedRegistry, computedKeyForPath(absPath)) THEN st
    ELSE [st EXCEPT !.computedRegistry =
             Put(@, computedKeyForPath(absPath),
                 [run |-> [recv |-> recv, getter |-> name],
                  last |-> Undefined, dirty |-> FALSE])]

ensureComputed(st, absPath, recv, name) ==
    IF Has(st.computedRegistry, computedKeyForPath(absPath)) THEN st
    ELSE [st EXCEPT !.computedRegistry =
             Put(@, computedKeyForPath(absPath),
                 [run |-> [recv |-> recv, getter |-> name],
                  last |-> Undefined, dirty |-> TRUE])]

\* new Proxy(target, ...) entered in proxyCache, storeOfProxy and proxyMeta; the
\* wrapper is the nth Proxy object constructed for this target
NewProxy(st, target, store, base) ==
    [st EXCEPT !.proxyCache =
        Put(@, target, [store |-> store, base |-> base,
                        nth |-> GetOr(@, target, [nth |-> 0]).nth + 1])]

\* variant: no cache lookup, every call constructs a wrapper
makeProxy_fresh(st, target, store, base) == NewProxy(st, target, store, base)

makeProxy(st, target, store, base) ==
    IF Has(st.proxyCache, target) THEN st
    ELSE NewProxy(st, target, store, base)

-----------------------------------------------------------------------------
(* Reads through a wrapper: the get trap, computed evaluation, live values *)

RECURSIVE Get(_, _, _)
RECURSIVE maybeRecompute(_, _)
RECURSIVE runComputed(_, _)
RECURSIVE GetterBody(_, _, _)
RECURSIVE TrackedReduce(_, _, _, _, _)
RECURSIVE LiveAccess(_, _)

\* variant: the evaluation runs under the scope it was called from
RunEnter_outer(st, depKey) ==
    [setDepSet(st, ComputedId(depKey), {}) EXCEPT
        !.frames = Put(@, depKey, {}),
        !.activeChildCapture = [on |-> TRUE, parent |-> depKey]]

\* runComputed up to the call of the evaluation function: a fresh dependency
\* set, a fresh child capture, the computed as the active scope
RunEnter(st, depKey) ==
    [setDepSet(st, ComputedId(depKey), {}) EXCEPT
        !.frames = Put(@, depKey, {}),
        !.activeChildCapture = [on |-> TRUE, parent |-> depKey],
        !.currentTracker = ComputedTracker(depKey)]

\* variant: the value the evaluation function returned is not memoized
RunSuccess_noStore(st, depKey, val) ==
    reindexComputedChildDeps(
        reindexComputedRawDeps([st EXCEPT !.computedRegistry[depKey].dirty = FALSE], depKey),
        depKey, st.frames[depKey])

\* runComputed after the evaluation function returned val
RunSuccess(st, depKey, val) ==
    reindexComputedChildDeps(
        reindexComputedRawDeps(
            [st EXCEPT !.computedRegistry[depKey].last = val,
                       !.computedRegistry[depKey].dirty = FALSE],
            depKey),
        depKey, st.frames[depKey])

\* variant: no finally block, a throw leaves the computed as the active scope
RunFinally_leak(prev, depKey, r) ==
    IF r.thrown THEN Throw(NoteScope(r.st, "computed", prev, TRUE))
    ELSE Ret(NoteScope([RunSuccess(r.st, depKey, r.val) EXCEPT
                           !.currentTracker = prev,
                           !.activeChildCapture = NoCapture,
                           !.frames = Del(@, depKey)],
                       "computed", prev, FALSE),
             r.val)

\* variant: a failed evaluation is memoized like a value, the entry ends Clean
RunFinally_clean(prev, depKey, r) ==
    With(NoteScope([(IF r.thrown
                     THEN [r.st EXCEPT !.computedRegistry[depKey].dirty = FALSE]
                     ELSE RunSuccess(r.st, depKey, r.val)) EXCEPT
                       !.currentTracker = prev,
                       !.activeChildCapture = NoCapture,
                       !.frames = Del(@, depKey)],
                   "computed", prev, r.thrown),
         LAMBDA s : IF r.thrown THEN Throw(s) ELSE Ret(s, r.val))

\* runComputed's finally block, after the body ended as r
RunFinally(prev, depKey, r) ==
    With(NoteScope([(IF r.thrown THEN r.st ELSE RunSuccess(r.st, depKey, r.val)) EXCEPT
                       !.currentTracker = prev,
                       !.activeChildCapture = NoCapture,
                       !.frames = Del(@, depKey)],
                   "computed", prev, r.thrown),
         LAMBDA s : IF r.thrown THEN Throw(s) ELSE Ret(s, r.val))

runComputed(st, depKey) ==
    IF ~Has(st.computedRegistry, depKey) THEN Ret(st, Undefined)
    ELSE With(RunFinally(st.currentTracker, depKey,
                         GetterBody(NoteRun(RunEnter(st, depKey), depKey),
                                    st.computedRegistry[depKey].run.recv,
                                    st.computedRegistry[depKey].run.getter)),
              LAMBDA r : NoteNested(st, depKey, r))

\* variant: the dirty flag is not consulted, every read evaluates
maybeRecompute_always(st, depKey) == runComputed(st, depKey)

maybeRecompute(st, depKey) ==
    IF Has(st.computedRegistry, depKey) /\ st.computedRegistry[depKey].dirty
    THEN runComputed(st, depKey)
    ELSE Ret(st, Undefined)

\* variant: no flattening, the parent keeps only what it read itself
MergeRaw_none(st, parentKey, childKey) == st

\* the child's raw dependencies go into the parent's set
MergeRaw(st, parentKey, childKey) ==
    IF Has(st.computedRawDeps, childKey)
    THEN addDeps(st, ComputedId(parentKey), st.computedRawDeps[childKey])
    ELSE st

\* the edge parent -> child is captured if the parent's capture is the active one
CaptureChild(st, parentKey, childKey) ==
    IF st.activeChildCapture.on /\ st.activeChildCapture.parent = parentKey
    THEN [st EXCEPT !.frames[parentKey] = @ \cup {childKey}]
    ELSE st

\* variant: the child's set is copied before the child is brought up to date
mergeChildRawDepsIntoParent_stale(st, parentKey, childKey) ==
    Then(maybeRecompute(CaptureChild(MergeRaw(st, parentKey, childKey), parentKey, childKey),
                        childKey),
         LAMBDA s, v : Ret(s, Undefined))

mergeChildRawDepsIntoParent(st, parentKey, childKey) ==
    Then(maybeRecompute(st, childKey), LAMBDA s, v :
        Ret(CaptureChild(MergeRaw(s, parentKey, childKey), parentKey, childKey), Undefined))

\* get trap, computed branch, a component scope is active
ComponentReadsComputed(st, id, depKey) ==
    Then(maybeRecompute(addDeps(st, id, {depKey}), depKey), LAMBDA s, v :
        Ret(addDeps(s, id, GetOr(s.computedRawDeps, depKey, {})
                             \cup AllPrefixes(GetOr(s.computedRawDeps, depKey, {}))),
            s.computedRegistry[depKey].last))

\* get trap, computed branch, a computed scope is active
ComputedReadsComputed(st, parentKey, depKey) ==
    Then(mergeChildRawDepsIntoParent(st, parentKey, depKey), LAMBDA s, v :
    Then(maybeRecompute(s, depKey), LAMBDA s2, v2 :
        Ret(s2, s2.computedRegistry[depKey].last)))

\* get trap, computed branch
GetComputed(st, depKey) ==
    IF st.currentTracker = NoTracker THEN Ret(st, LiveComp(depKey))
    ELSE IF st.currentTracker.id.sym
         THEN ComponentReadsComputed(st, st.currentTracker.id, depKey)
         ELSE ComputedReadsComputed(st, st.currentTracker.id.k, depKey)

\* variant: an untracked read hands out the value it finds, not a live handle
GetPrimitive_eager(st, store, currentPath) ==
    FromRaw(TrackIfActive(st, keyOf(currentPath)), getValueAtPath(st.heap, store, currentPath))

\* get trap, primitive branch
GetPrimitive(st, store, currentPath) ==
    IF st.currentTracker # NoTracker
    THEN FromRaw(TrackIfActive(st, keyOf(currentPath)),
                 getValueAtPath(st.heap, store, currentPath))
    ELSE Ret(st, LiveRaw(store, currentPath))

\* variant: the value inside a ref is wrapped like any nested object
GetRef_wrapped(st, store, currentPath, value) ==
    Ret(makeProxy(TrackIfActive(st, keyOf(currentPath)), value.n, store, currentPath),
        ProxyOf(value.n))

\* get trap, ref branch: the path of the slot is recorded, the value inside
\* the ref is handed out as it is
GetRef(st, store, currentPath, value) ==
    Ret(TrackIfActive(st, keyOf(currentPath)), Ref(value.n))

\* the get trap of the wrapper of raw object o
Get(st, o, key) ==
    LET meta        == st.proxyCache[o]
        currentPath == Append(meta.base, key)
        desc        == OwnProp(st.heap, o, key)
    IN  IF desc.t = "getter" THEN
            GetComputed(NoteRead(ensureComputed(st, keyOf(currentPath), o, key),
                                 computedKeyForPath(keyOf(currentPath))),
                        computedKeyForPath(keyOf(currentPath)))
        ELSE IF isRef(desc) THEN GetRef(st, meta.store, currentPath, desc)
        ELSE IF isPrimitive(desc) THEN GetPrimitive(st, meta.store, currentPath)
        ELSE Ret(makeProxy(st, desc.n, meta.store, currentPath), ProxyOf(desc.n))

\* v.key where v is whatever a tracked read returned
PropOf(st, v, key) ==
    IF v.t \in {"undef", "null"} THEN Throw(st)
    ELSE IF v.t = "proxy" THEN Get(st, v.n, key)
    ELSE IF v.t = "ref" THEN FromRaw(st, RawGet(st.heap, v, key))
    ELSE Ret(st, Undefined)

ToLength(v) == IF v.t = "num" /\ v.n > 0 THEN v.n \div 10 ELSE 0

\* Array.prototype.reduce called on the wrapper of array arr, from index k on,
\* with the callback (s, it) => s + it.price * it.qty
TrackedReduce(st, arr, k, len, acc) ==
    IF k >= len THEN Ret(st, acc)
    ELSE IF ~(IndexKey(k) \in DOMAIN st.heap[arr].f) THEN TrackedReduce(st, arr, k + 1, len, acc)
    ELSE Then(Get(st, arr, IndexKey(k)), LAMBDA s1, it :
         Then(PropOf(s1, it, << "price" >>), LAMBDA s2, price :
         Then(PropOf(s2, it, << "qty" >>), LAMBDA s3, qty :
             TrackedReduce(s3, arr, k + 1, len, Plus(acc, Times(price, qty))))))

\* entry.run(): the getter called with this = the wrapper of recv
GetterBody(st, recv, name) ==
    IF name = << "subtotal" >> THEN
        Then(Get(st, recv, << "items" >>), LAMBDA s1, items :
            IF items.t # "proxy" THEN Throw(s1)
            ELSE IF ~IsArray(s1.heap, items.n)
                 THEN Throw(Get(s1, items.n, << "reduce" >>).st)
            ELSE Then(Get(s1, items.n, LENGTH), LAMBDA s2, len :
                     TrackedReduce(s2, items.n, 0, ToLength(len), Whole(0))))
    ELSE IF name = << "tax" >> THEN
        Then(Get(st, recv, << "subtotal" >>), LAMBDA s1, subtotal :
        Then(Get(s1, recv, << "taxRate" >>), LAMBDA s2, taxRate :
            Ret(s2, Times(subtotal, taxRate))))
    ELSE IF name = << "total" >> THEN
        Then(Get(st, recv, << "subtotal" >>), LAMBDA s1, subtotal :
        Then(Get(s1, recv, << "tax" >>), LAMBDA s2, tax :
            Ret(s2, Plus(subtotal, tax))))
    ELSE IF name = << "first" >> THEN
        \* get first() { return this.items[0]; }
        Then(Get(st, recv, << "items" >>), LAMBDA s1, items :
            PropOf(s1, items, IndexKey(0)))
    ELSE IF name = << "shown" >> THEN
        \* const taxHandle = state.tax;  get shown() { return taxHandle(); }
        LiveAccess(st, LiveComp(computedKeyForPath(<< "tax" >>)))
    ELSE Ret(st, Undefined)

\* createLivePrimitive: calling the handle (access); any other value is itself
LiveAccess(st, live) ==
    IF live.t = "livec" THEN
        Then(maybeRecompute(NoteRead(st, live.p), live.p), LAMBDA s, v :
            Ret(TrackIfActive(s, live.p),
                GetOr(s.computedRegistry, live.p, [last |-> Undefined]).last))
    ELSE IF live.t = "live" THEN
        Then(FromRaw(st, getValueAtPath(st.heap, live.n, live.p)), LAMBDA s, v :
            Ret(TrackIfActive(s, keyOf(live.p)), v))
    ELSE Ret(st, live)

-----------------------------------------------------------------------------
(* Snapshots: plain copies and bound views                                 *)

Plain(isArr, fields) == [t |-> "plain", n |-> IF isArr THEN 1 ELSE 0, p |-> fields]

View(target, bind) == [t |-> "view", n |-> target, p |-> bind]  \* bind: << >> if unbound

RawView(target, bind) == [t |-> "rawview", n |-> target, p |-> bind]

RECURSIVE snapshotPlain(_, _)
RECURSIVE SnapshotEach(_, _, _, _, _)

\* the value of property k of src as snapshotPlain reads it: from the root by
\* absolute path, the path recorded, if src is a wrapper; src[k] otherwise
SnapshotProp(st, src, k) ==
    IF src.t = "proxy"
    THEN FromRaw(TrackIfActive(st, keyOf(Append(st.proxyCache[src.n].base, k))),
                 getValueAtPath(st.heap, st.proxyCache[src.n].store,
                                Append(st.proxyCache[src.n].base, k)))
    ELSE FromRaw(st, RawGet(st.heap, src, k))

\* variant: the copy is one level deep, out[k] is the value found
RECURSIVE SnapshotEach_shallow(_, _, _, _, _)
SnapshotEach_shallow(st, src, keys, out, isArr) ==
    IF keys = {} THEN Ret(st, Plain(isArr, out))
    ELSE With(CHOOSE x \in keys : TRUE, LAMBDA k :
         Then(SnapshotProp(st, src, k), LAMBDA s1, rawVal :
             SnapshotEach_shallow(s1, src, keys \ {k}, Put(out, k, rawVal), isArr)))

\* out[k] = snapshotPlain(<property k of src>) for every k of keys
SnapshotEach(st, src, keys, out, isArr) ==
    IF keys = {} THEN Ret(st, Plain(isArr, out))
    ELSE With(CHOOSE x \in keys : TRUE, LAMBDA k :
         Then(SnapshotProp(st, src, k), LAMBDA s1, rawVal :
         Then(snapshotPlain(s1, rawVal), LAMBDA s2, c :
             SnapshotEach(s2, src, keys \ {k}, Put(out, k, c), isArr))))

\* snapshotPlain, managed array: length is read from the root by path
SnapshotManagedArray(st, value, at) ==
    IF at.thrown \/ at.val.t # "ref" THEN Throw(st)
    ELSE With(ToLength(OwnProp(st.heap, at.val.n, LENGTH)), LAMBDA len :
             SnapshotEach(st, value, { IndexKey(i) : i \in 0..(len - 1) },
                          [x \in {LENGTH} |-> Whole(len)], TRUE))

snapshotPlain(st, value) ==
    IF value.t \in {"live", "livec"} THEN LiveAccess(st, value)
    ELSE IF isRef(value) THEN SnapshotEach(st, value, { << "value" >> }, EmptyMap, FALSE)
    ELSE IF ~isObject(value) THEN Ret(st, value)
    ELSE IF value.t = "proxy" /\ IsArray(st.heap, value.n) THEN
        SnapshotManagedArray(
            TrackIfActive(st, keyOf(Append(st.proxyCache[value.n].base, LENGTH))),
            value,
            getValueAtPath(st.heap, st.proxyCache[value.n].store,
                           st.proxyCache[value.n].base))
    ELSE IF value.t = "ref" /\ IsArray(st.heap, value.n) THEN
        SnapshotEach(st, value,
                     { IndexKey(i) : i \in 0..(ArrayLength(st.heap, value.n) - 1) },
                     [x \in {LENGTH} |-> Whole(ArrayLength(st.heap, value.n))], TRUE)
    ELSE SnapshotEach(st, value, DOMAIN st.heap[value.n].f, EmptyMap, FALSE)

\* Reflect.get(proxyObj, prop): a view made from a wrapper reads through the
\* wrapper; one made from a raw root object reads the raw object
ViewTarget(st, view, prop) ==
    IF view.t = "view" THEN Get(st, view.n, prop)
    ELSE FromRaw(st, RawGet(st.heap, Ref(view.n), prop))

\* readUnder: the read runs under the component the view is bound to
readUnder(st, view, prop) ==
    IF view.p = << >> THEN ViewTarget(st, view, prop)
    ELSE With(ViewTarget([st EXCEPT !.currentTracker = ComponentTracker(ComponentId(view.p))],
                         view, prop),
              LAMBDA g :
                  [g EXCEPT !.st = NoteScope([g.st EXCEPT !.currentTracker = st.currentTracker],
                                             "view", st.currentTracker, g.thrown)])

\* makeSnapshotView: the get trap of a view
ViewGet(st, view, prop) ==
    Then(readUnder(st, view, prop), LAMBDA s, val :
        IF val.t \in {"live", "livec"} THEN LiveAccess(s, val)
        ELSE IF isObject(val) /\ IsArray(s.heap, val.n) THEN snapshotPlain(s, val)
        ELSE IF val.t = "proxy" THEN Ret(s, View(val.n, view.p))
        ELSE IF val.t = "ref" /\ Has(s.storeOfRoot, val.n)
             THEN Ret(s, RawView(val.n, view.p))
        ELSE Ret(s, val))

\* the getOwnPropertyDescriptor trap of a view: the value is read from the
\* object the view was made of, under whatever scope the caller is in; the
\* descriptor says writable: false
ViewDescriptor(st, view, prop) == ViewTarget(st, view, prop)

\* variant: the assignment is stored in the object the view was made of
ViewSet_through(st, view, prop, newVal) ==
    Ret([st EXCEPT !.heap = ReflectSet(@, view.n, prop, newVal)], newVal)

\* view.prop = newVal.  The handler has no set trap: the assignment goes to
\* the empty target object, which has no such property, and ends in
\* Receiver.[[GetOwnProperty]], the trap above; the property it reports is not
\* writable, so nothing is stored and the assignment fails (a TypeError in
\* module code)
ViewSet(st, view, prop, newVal) ==
    Then(ViewDescriptor(st, view, prop), LAMBDA s, value : Throw(s))

RECURSIVE snapshot(_, _)
RECURSIVE SnapshotShallow(_, _, _, _)

\* the plain, unmanaged object branch of snapshot: out[k] = snapshot(value[k])
SnapshotShallow(st, src, keys, out) ==
    IF keys = {} THEN Ret(st, Plain(FALSE, out))
    ELSE With(CHOOSE x \in keys : TRUE, LAMBDA k :
         Then(FromRaw(st, RawGet(st.heap, src, k)), LAMBDA s1, v :
         Then(snapshot(s1, v), LAMBDA s2, c :
             SnapshotShallow(s2, src, keys \ {k}, Put(out, k, c)))))

\* the component a view made now is bound to
BindOf(st) == IF st.currentTracker.kind = "component" THEN st.currentTracker.id.k ELSE << >>

\* snapshot(value)
snapshot(st, value) ==
    IF value.t \in {"live", "livec"} THEN LiveAccess(st, value)
    ELSE IF isRef(value) THEN SnapshotShallow(st, value, { << "value" >> }, EmptyMap)
    ELSE IF ~isObject(value) THEN Ret(st, value)
    ELSE IF IsArray(st.heap, value.n) THEN snapshotPlain(st, value)
    ELSE IF value.t = "proxy" THEN Ret(st, View(value.n, BindOf(st)))
    ELSE IF Has(st.storeOfRoot, value.n) THEN Ret(st, RawView(value.n, BindOf(st)))
    ELSE SnapshotShallow(st, value, DOMAIN st.heap[value.n].f, EmptyMap)

-----------------------------------------------------------------------------
(* Tracked scopes and what consumers run inside them                       *)

\* v.a.b.c by successive property reads
RECURSIVE ReadPath(_, _, _)
ReadPath(st, v, path) ==
    IF path = << >> THEN Ret(st, v)
    ELSE Then(IF v.t \in {"view", "rawview"} THEN ViewGet(st, v, Head(path))
              ELSE PropOf(st, v, Head(path)),
              LAMBDA s, w : ReadPath(s, w, Tail(path)))

\* a value a consumer keeps
Keep(st, v) == Ret(NoteResult(st, v), v)

\* the body a consumer passes to withComponentTracking, on the state `root`:
\*   select    snapshot(selector(state)), selector = s => s.<path>   (react.ts 27-31)
\*   view      snap = snapshot(state); snap.<path>         (the benches' warm-up)
\*   twice     state.<path> read two times in a row
ScopeBody(st, prog, root) ==
    IF prog.kind = "select" THEN
        Then(ReadPath(st, ProxyOf(root), prog.path), LAMBDA s1, selected :
        Then(snapshot(s1, selected), LAMBDA s2, v : Keep(s2, v)))
    ELSE IF prog.kind = "view" THEN
        Then(snapshot(st, ProxyOf(root)), LAMBDA s1, snap :
        Then(ReadPath([s1 EXCEPT !.views = @ \cup {snap}], snap, prog.path),
             LAMBDA s2, v : Keep(s2, v)))
    ELSE
        Then(ReadPath(st, ProxyOf(root), prog.path), LAMBDA s1, a :
        Then(ReadPath(NoteResult(s1, a), ProxyOf(root), prog.path),
             LAMBDA s2, b : Keep(s2, b)))

\* variant: the dependency set of the handle is kept from one run to the next
withComponentTracking_keep(st, h, prog, root) ==
    With(ScopeBody([ensureDepSet(st, ComponentId(h)) EXCEPT
                       !.currentTracker = ComponentTracker(ComponentId(h))],
                   prog, root),
         LAMBDA r : [r EXCEPT !.st = NoteScope([r.st EXCEPT !.currentTracker = st.currentTracker],
                                               "component", st.currentTracker, r.thrown)])

withComponentTracking(st, h, prog, root) ==
    With(ScopeBody([setDepSet(st, ComponentId(h), {}) EXCEPT
                       !.currentTracker = ComponentTracker(ComponentId(h))],
                   prog, root),
         \* finally
         LAMBDA r : [r EXCEPT !.st = NoteScope([r.st EXCEPT !.currentTracker = st.currentTracker],
                                               "component", st.currentTracker, r.thrown)])

-----------------------------------------------------------------------------
(* The store: subscriptions and the write-time invalidation pass           *)

\* a listener: "count" only takes note of the call; "react" is the listener
\* useSnapshot registers (react.ts 33-38): it runs computeSelected again
Listener(kind, prog) == [kind |-> kind, prog |-> prog]

\* componentSubscribers.get(id)()
InvokeListener(st, store, id) ==
    IF st.componentSubscribers[store][id].kind = "react"
    THEN withComponentTracking([st EXCEPT !.obs.pings = Append(@, id.k)], id.k,
                               st.componentSubscribers[store][id].prog, store)
    ELSE Ret([st EXCEPT !.obs.pings = Append(@, id.k)], Undefined)

RECURSIVE SetToSeq(_)
SetToSeq(S) ==
    IF S = {} THEN << >>
    ELSE With(CHOOSE y \in S : TRUE, LAMBDA x : << x >> \o SetToSeq(S \ {x}))

\* variant: a parent is taken whether or not the pass has seen it
FreshParents_again(st, child, seen) ==
    { parent \in GetOr(st.reverseCompToComp, child, {}) : Has(st.computedRegistry, parent) }

\* the parents of child that the pass has not seen yet
FreshParents(st, child, seen) ==
    { parent \in GetOr(st.reverseCompToComp, child, {}) :
        ~(parent \in seen) /\ Has(st.computedRegistry, parent) }

\* step 2: breadth-first over child -> parents edges
RECURSIVE PropagateDirty(_, _, _)
PropagateDirty(st, queue, seen) ==
    IF queue = << >> THEN seen
    ELSE With(FreshParents(st, Head(queue), seen), LAMBDA fresh :
             PropagateDirty(st, Tail(queue) \o SetToSeq(fresh), seen \cup fresh))

\* step 2: the computeds in the order queue.shift() hands them out
RECURSIVE VisitOrder(_, _, _)
VisitOrder(st, queue, seen) ==
    IF queue = << >> THEN << >>
    ELSE With(FreshParents(st, Head(queue), seen), LAMBDA fresh :
             << Head(queue) >> \o
             VisitOrder(st, Tail(queue) \o SetToSeq(fresh), seen \cup fresh))

\* variant: every component that recorded anything is pinged
shouldPing_any(deps, changedRaw, affected) == deps # {}

\* variant: the raw match compares characters, with no regard for segments
shouldPing_charPrefix(deps, changedRaw, affected) ==
    \/ \E d \in deps :
         /\ ~StartsWith(d, REF_COMPUTED_PREFIX)
         /\ (StartsWith(d, changedRaw) \/ StartsWith(changedRaw, d))
    \/ \E c \in affected : c \in deps

shouldPing(deps, changedRaw, affected) ==
    \/ \E d \in deps :
         /\ ~StartsWith(d, REF_COMPUTED_PREFIX)
         /\ \/ d = changedRaw
            \/ StartsWith(d, changedRaw \o << Dot >>)
            \/ StartsWith(changedRaw, d \o << Dot >>)
    \/ \E c \in affected : c \in deps

\* variant: the listeners are called in the order of componentSubscribers
RECURSIVE NotifyComponents_bySubscription(_, _, _, _, _)
NotifyComponents_bySubscription(st, store, changedRaw, affected, i) ==
    IF i > Len(st.subscriberOrder[store]) THEN Ret(st, Undefined)
    ELSE IF shouldPing(GetOr(st.dependencyGraph, st.subscriberOrder[store][i], {}),
                       changedRaw, affected)
         THEN Then(InvokeListener(st, store, st.subscriberOrder[store][i]), LAMBDA s, v :
                  NotifyComponents_bySubscription(s, store, changedRaw, affected, i + 1))
         ELSE NotifyComponents_bySubscription(st, store, changedRaw, affected, i + 1)

\* step 3: the components, in the order of dependencyGraph
RECURSIVE NotifyComponents(_, _, _, _, _)
NotifyComponents(st, store, changedRaw, affected, i) ==
    IF i > Len(st.dependencyOrder) THEN Ret(st, Undefined)
    ELSE IF /\ shouldPing(st.dependencyGraph[st.dependencyOrder[i]], changedRaw, affected)
            /\ Has(st.componentSubscribers[store], st.dependencyOrder[i])
         THEN Then(InvokeListener(st, store, st.dependencyOrder[i]), LAMBDA s, v :
                  NotifyComponents(s, store, changedRaw, affected, i + 1))
         ELSE NotifyComponents(st, store, changedRaw, affected, i + 1)

\* variant: the pass evaluates a computed it found
markDirty_eager(st, keys) ==
    IF keys = {} THEN st
    ELSE runComputed(
             [st EXCEPT
                !.computedRegistry = [k \in DOMAIN @ |->
                    IF k \in keys THEN [@[k] EXCEPT !.dirty = TRUE] ELSE @[k]],
                !.obs.affected = @ \cup keys],
             CHOOSE k \in keys : TRUE).st

\* entry.dirty = true for every computed the pass found; nothing else happens
\* to a computed at write time
markDirty(st, keys) ==
    [st EXCEPT
       !.computedRegistry = [k \in DOMAIN @ |->
           IF k \in keys THEN [@[k] EXCEPT !.dirty = TRUE] ELSE @[k]],
       !.obs.affected = @ \cup keys]

\* step 1: raw -> computed, over the prefixes of the changed path
DirectlyAffected(st, changedRaw) ==
    { compKey \in UNION { GetOr(st.reverseRawToComp, lk, {}) :
                            lk \in Range(prefixesOf(changedRaw)) } :
        Has(st.computedRegistry, compKey) }

notifyPathChange(st, store, path) ==
    With(DirectlyAffected(st, keyOf(path)), LAMBDA direct :
    With(PropagateDirty(st, SetToSeq(direct), direct), LAMBDA affected :
        NotifyComponents(markDirty(NotePass(NoteData(st, store, path), keyOf(path)), affected),
                         store, keyOf(path),
                         affected, 1)))

\* Map.set: a new key goes to the end, a key already there keeps its place
subscribeComponent(st, store, h, cb) ==
    [st EXCEPT !.componentSubscribers[store] = Put(@, ComponentId(h), cb),
               !.subscriberOrder[store] =
                   IF ComponentId(h) \in Range(@) THEN @ ELSE Append(@, ComponentId(h))]

\* variant: the function returned by subscribeComponent removes nothing
unsubscribe_kept(st, store, h) == st

unsubscribe(st, store, h) ==
    [st EXCEPT !.componentSubscribers[store] = Del(@, ComponentId(h)),
               !.subscriberOrder[store] = SelectSeq(@, LAMBDA id : id # ComponentId(h))]

\* the identity of the store createStore(root) makes: the first store made for
\* a root is named by the root, a later one by a number that names no object
NewStore(st, root) ==
    IF Has(st.componentSubscribers, root)
    THEN 0 - Cardinality(DOMAIN st.componentSubscribers)
    ELSE root

\* createStore(root): a store with no subscriber, entered in storeOfRoot
\* whether or not the root had a store
createStore(st, root) ==
    [st EXCEPT !.componentSubscribers = Put(@, NewStore(st, root), EmptyMap),
               !.subscriberOrder = Put(@, NewStore(st, root), << >>),
               !.storeOfRoot = Put(@, root, NewStore(st, root))]

\* variant: the wrapper is constructed without asking the cache
proxy_fresh(st, initial) ==
    With(createStore(st, initial), LAMBDA s :
        Ret(NewProxy(s, initial, s.storeOfRoot[initial], << >>), ProxyOf(initial)))

\* proxy(initial), initial a raw object
proxy(st, initial) ==
    With(createStore(st, initial), LAMBDA s :
        Ret(makeProxy(s, initial, s.storeOfRoot[initial], << >>), ProxyOf(initial)))

\* state.__raw ?? state: the target of a wrapper; for any other object its own
\* property of that name if it has one
MaybeRaw(st, state) ==
    IF state.t = "proxy" THEN Ref(state.n)
    ELSE IF OwnProp(st.heap, state.n, << "__raw" >>).t \in {"undef", "null"} THEN state
    ELSE OwnProp(st.heap, state.n, << "__raw" >>)

\* variant: the store of a wrapper is asked for before the store of its target
getStoreFor_proxyFirst(st, state) ==
    IF state.t = "proxy" /\ Has(st.proxyCache, state.n)
    THEN Ret(st, st.proxyCache[state.n].store)
    ELSE IF MaybeRaw(st, state).t = "ref" /\ Has(st.storeOfRoot, MaybeRaw(st, state).n)
    THEN Ret(st, st.storeOfRoot[MaybeRaw(st, state).n])
    ELSE Throw(st)

\* getStoreFor(state), state a wrapper or a raw object
getStoreFor(st, state) ==
    IF MaybeRaw(st, state).t = "ref" /\ Has(st.storeOfRoot, MaybeRaw(st, state).n)
    THEN Ret(st, st.storeOfRoot[MaybeRaw(st, state).n])
    ELSE IF state.t = "proxy" /\ Has(st.proxyCache, state.n)
    THEN Ret(st, st.proxyCache[state.n].store)
    ELSE Throw(st)

\* one pass after the other; a listener that throws ends the trap
RECURSIVE NotifyEach(_, _, _)
NotifyEach(st, store, paths) ==
    IF paths = << >> THEN Ret(st, Undefined)
    ELSE Then(notifyPathChange(st, store, Head(paths)), LAMBDA s, v :
             NotifyEach(s, store, Tail(paths)))

\* variant: no length pass, the property alone is invalidated
NotifyTrap_onePass(st, o, key) ==
    NotifyEach(st, st.proxyCache[o].store, << Append(st.proxyCache[o].base, key) >>)

\* variant: the length pass follows every write, on arrays and objects alike
NotifyTrap_twoPasses(st, o, key) ==
    NotifyEach(st, st.proxyCache[o].store,
               << Append(st.proxyCache[o].base, key),
                  Append(st.proxyCache[o].base, LENGTH) >>)

\* what the set, defineProperty and deleteProperty traps do after the raw
\* operation: a pass for the property and, on an array, one for length
NotifyTrap(st, o, key) ==
    NotifyEach(st, st.proxyCache[o].store,
               IF IsArray(st.heap, o) /\ key # LENGTH
               THEN << Append(st.proxyCache[o].base, key),
                       Append(st.proxyCache[o].base, LENGTH) >>
               ELSE << Append(st.proxyCache[o].base, key) >>)

\* variant: the passes run first, the data is changed after them
SetTrap_notifyFirst(st, o, key, newVal) ==
    Then(NotifyTrap(st, o, key), LAMBDA s, v :
        Ret([s EXCEPT !.heap = ReflectSet(@, o, key, newVal)], v))

\* the set trap of the wrapper of raw object o
SetTrap(st, o, key, newVal) ==
    NotifyTrap([st EXCEPT !.heap = ReflectSet(@, o, key, newVal)], o, key)

\* the defineProperty trap of the wrapper of raw object o, for a data descriptor
DefineTrap(st, o, key, newVal) ==
    NotifyTrap([st EXCEPT !.heap = ReflectSet(@, o, key, newVal)], o, key)

\* the deleteProperty trap of the wrapper of raw object o
DeleteTrap(st, o, key) ==
    NotifyTrap([st EXCEPT !.heap[o].f = Del(@, key)], o, key)

\* state.a.b.c = newVal: untracked reads down to the owner, then its set trap;
\* an owner that is a raw object (the value inside a ref) has no trap
WriteAt(st, root, path, newVal) ==
    Then(ReadPath(st, ProxyOf(root), SubSeq(path, 1, Len(path) - 1)), LAMBDA s, owner :
        IF owner.t = "ref"
        THEN Ret([s EXCEPT !.heap = ReflectSet(@, owner.n, path[Len(path)], newVal)], newVal)
        ELSE IF owner.t # "proxy" THEN Throw(s)
        ELSE SetTrap(s, owner.n, path[Len(path)], newVal))

\* Object.defineProperty(state.a.b, "c", { value: newVal, ... })
DefineAt(st, root, path, newVal) ==
    Then(ReadPath(st, ProxyOf(root), SubSeq(path, 1, Len(path) - 1)), LAMBDA s, owner :
        IF owner.t # "proxy" THEN Throw(s)
        ELSE DefineTrap(s, owner.n, path[Len(path)], newVal))

\* delete state.a.b.c
DeleteAt(st, root, path) ==
    Then(ReadPath(st, ProxyOf(root), SubSeq(path, 1, Len(path) - 1)), LAMBDA s, owner :
        IF owner.t # "proxy" THEN Throw(s)
        ELSE DeleteTrap(s, owner.n, path[Len(path)]))

\* the id of the next raw object created
NextObject(st) == Cardinality(DOMAIN st.heap)

\* a fresh raw object with the given fields, not yet wrapped
NewObject(st, fields) ==
    [st EXCEPT !.heap = (NextObject(st) :> [arr |-> FALSE, f |-> fields]) @@ @]

\* state.<path>.push(item): Array.prototype.push run on the wrapper reads
\* length (a live handle, converted to a number), sets the new index, then
\* sets length
PushAt(st, root, path, fields) ==
    Then(ReadPath(NewObject(st, fields), ProxyOf(root), path), LAMBDA s1, owner :
        IF owner.t # "proxy" THEN Throw(s1)
        ELSE Then(Get(s1, owner.n, LENGTH), LAMBDA s2, handle :
             Then(LiveAccess(s2, handle), LAMBDA s3, len :
             Then(SetTrap(s3, owner.n, IndexKey(ToLength(len)), Ref(NextObject(st))),
                  LAMBDA s4, ok :
                      SetTrap(s4, owner.n, LENGTH, Whole(ToLength(len) + 1))))))

-----------------------------------------------------------------------------
(* The eager engine (src/src/valtio.ts): the same maps, no dirty flag, no   *)
(* reverse index.  A computed is evaluated when its entry is created and    *)
(* again inside every write pass that touches a dependency.  The entries    *)
(* keep the field dirty of the record, always FALSE.  dependencyOrder holds *)
(* every key of dependencyGraph, computed keys included, because the write  *)
(* pass walks the Map in insertion order.                                   *)

RECURSIVE EagerGet(_, _, _)
RECURSIVE EagerRunComputed(_, _)
RECURSIVE EagerGetterBody(_, _, _)
RECURSIVE EagerReduce(_, _, _, _, _)

\* dependencyGraph.set(id, new Set())
EagerSetDepSet(st, id) ==
    [st EXCEPT !.dependencyGraph = Put(@, id, {}),
               !.dependencyOrder = IF id \in Range(@) THEN @ ELSE Append(@, id)]

\* if (currentTracker) ensureDepSet(currentTracker.id).add(key)
EagerTrackIfActive(st, key) ==
    IF st.currentTracker = NoTracker THEN st
    ELSE [(IF Has(st.dependencyGraph, st.currentTracker.id) THEN st
           ELSE EagerSetDepSet(st, st.currentTracker.id)) EXCEPT
             !.dependencyGraph[st.currentTracker.id] = @ \cup {key}]

\* createLivePrimitive: access; a computed is read from the registry as it is
EagerAccess(st, live) ==
    IF live.t = "livec" THEN
        Ret(EagerTrackIfActive(st, live.p),
            GetOr(st.computedRegistry, live.p, [last |-> Undefined]).last)
    ELSE IF live.t = "live" THEN
        Then(FromRaw(st, getValueAtPath(st.heap, live.n, live.p)), LAMBDA s, v :
            Ret(EagerTrackIfActive(s, keyOf(live.p)), v))
    ELSE Ret(st, live)

\* runComputed: the computed becomes the active scope, and the finally block
\* leaves no scope active
EagerRunComputed(st, depKey) ==
    IF ~Has(st.computedRegistry, depKey) THEN Ret(st, Undefined)
    ELSE With(EagerGetterBody(
                  NoteRun([EagerSetDepSet(st, ComputedId(depKey)) EXCEPT
                              !.currentTracker = ComputedTracker(depKey)], depKey),
                  st.computedRegistry[depKey].run.recv,
                  st.computedRegistry[depKey].run.getter),
              LAMBDA r :
                  IF r.thrown
                  THEN Throw(NoteScope([r.st EXCEPT !.currentTracker = NoTracker],
                                       "computed", st.currentTracker, TRUE))
                  ELSE Ret(NoteScope([r.st EXCEPT !.computedRegistry[depKey].last = r.val,
                                                  !.currentTracker = NoTracker],
                                     "computed", st.currentTracker, FALSE),
                           r.val))

\* ensureComputed: a new entry is evaluated at once
EagerEnsureComputed(st, absPath, recv, name) ==
    IF Has(st.computedRegistry, computedKeyForPath(absPath)) THEN Ret(st, Undefined)
    ELSE EagerRunComputed(
             [st EXCEPT !.computedRegistry =
                 Put(@, computedKeyForPath(absPath),
                     [run |-> [recv |-> recv, getter |-> name],
                      last |-> Undefined, dirty |-> FALSE])],
             computedKeyForPath(absPath))

\* get trap, computed getter: the scope is looked at after ensureComputed
EagerGetComputed(st, depKey) ==
    IF st.currentTracker # NoTracker
    THEN Ret(EagerTrackIfActive(st, depKey), st.computedRegistry[depKey].last)
    ELSE Ret(st, LiveComp(depKey))

\* the get trap of the wrapper of raw object o
EagerGet(st, o, key) ==
    LET meta        == st.proxyCache[o]
        currentPath == Append(meta.base, key)
        desc        == OwnProp(st.heap, o, key)
    IN  IF desc.t = "getter" THEN
            Then(EagerEnsureComputed(NoteRead(st, computedKeyForPath(keyOf(currentPath))),
                                     keyOf(currentPath), o, key),
                 LAMBDA s, v : EagerGetComputed(s, computedKeyForPath(keyOf(currentPath))))
        ELSE IF isRef(desc) THEN Ret(EagerTrackIfActive(st, keyOf(currentPath)), Ref(desc.n))
        ELSE IF isPrimitive(desc) THEN
            IF st.currentTracker # NoTracker
            THEN Ret(EagerTrackIfActive(st, keyOf(currentPath)), desc)
            ELSE Ret(st, LiveRaw(meta.store, currentPath))
        ELSE Ret(makeProxy(st, desc.n, meta.store, currentPath), ProxyOf(desc.n))

\* v.key where v is whatever a read returned
EagerPropOf(st, v, key) ==
    IF v.t \in {"undef", "null"} THEN Throw(st)
    ELSE IF v.t = "proxy" THEN EagerGet(st, v.n, key)
    ELSE IF v.t = "ref" THEN FromRaw(st, RawGet(st.heap, v, key))
    ELSE Ret(st, Undefined)

\* a op b: both operands are there before either is converted; a live handle
\* is converted by calling it
EagerArith(st, a, b, op(_, _)) ==
    Then(EagerAccess(st, a), LAMBDA s1, x :
    Then(EagerAccess(s1, b), LAMBDA s2, y : Ret(s2, op(x, y))))

\* Array.prototype.reduce on the wrapper of array arr, from index k on, with
\* the callback (s, it) => s + it.price * it.qty
EagerReduce(st, arr, k, len, acc) ==
    IF k >= len THEN Ret(st, acc)
    ELSE IF ~(IndexKey(k) \in DOMAIN st.heap[arr].f) THEN EagerReduce(st, arr, k + 1, len, acc)
    ELSE Then(EagerGet(st, arr, IndexKey(k)), LAMBDA s1, it :
         Then(EagerPropOf(s1, it, << "price" >>), LAMBDA s2, price :
         Then(EagerPropOf(s2, it, << "qty" >>), LAMBDA s3, qty :
         Then(EagerArith(s3, price, qty, Times), LAMBDA s4, product :
             EagerReduce(s4, arr, k + 1, len, Plus(acc, product))))))

\* entry.run(): the getter called with this = the wrapper of recv
EagerGetterBody(st, recv, name) ==
    IF name = << "subtotal" >> THEN
        Then(EagerGet(st, recv, << "items" >>), LAMBDA s1, items :
            IF items.t # "proxy" THEN Throw(s1)
            ELSE IF ~IsArray(s1.heap, items.n) THEN Throw(s1)
            ELSE Then(EagerGet(s1, items.n, LENGTH), LAMBDA s2, handle :
                 Then(EagerAccess(s2, handle), LAMBDA s3, len :
                     EagerReduce(s3, items.n, 0, ToLength(len), Whole(0)))))
    ELSE IF name = << "tax" >> THEN
        Then(EagerGet(st, recv, << "subtotal" >>), LAMBDA s1, subtotal :
        Then(EagerGet(s1, recv, << "taxRate" >>), LAMBDA s2, taxRate :
            EagerArith(s2, subtotal, taxRate, Times)))
    ELSE IF name = << "total" >> THEN
        Then(EagerGet(st, recv, << "subtotal" >>), LAMBDA s1, subtotal :
        Then(EagerGet(s1, recv, << "tax" >>), LAMBDA s2, tax :
            EagerArith(s2, subtotal, tax, Plus)))
    ELSE Ret(st, Undefined)

\* Object.keys of a state object: the own enumerable keys in creation order
KeyOrder ==
    << << "items" >>, << "taxRate" >>, << "subtotal" >>, << "tax" >>, << "total" >>,
       << "id" >>, << "price" >>, << "qty" >> >>

EagerKeys(h, o) ==
    IF IsArray(h, o)
    THEN [i \in 1..ArrayLength(h, o) |-> IndexKey(i - 1)]
    ELSE SelectSeq(KeyOrder, LAMBDA k : k \in DOMAIN h[o].f)

\* snapshot(value): a live handle is called, a wrapper is copied key by key
\* through its get trap (an array by map, which reads length first)
RECURSIVE EagerSnapshot(_, _)
RECURSIVE EagerSnapshotEach(_, _, _, _)
EagerSnapshotEach(st, src, keys, out) ==
    IF keys = << >> THEN Ret(st, Plain(IsArray(st.heap, src), out))
    ELSE IF ~(Head(keys) \in DOMAIN st.heap[src].f)
         THEN EagerSnapshotEach(st, src, Tail(keys), out)
    ELSE Then(EagerGet(st, src, Head(keys)), LAMBDA s1, v :
         Then(EagerSnapshot(s1, v), LAMBDA s2, copy :
             EagerSnapshotEach(s2, src, Tail(keys), Put(out, Head(keys), copy))))

EagerSnapshot(st, value) ==
    IF value.t \in {"live", "livec"} THEN EagerAccess(st, value)
    ELSE IF value.t # "proxy" THEN Ret(st, value)
    ELSE IF IsArray(st.heap, value.n)
         THEN Then(EagerGet(st, value.n, LENGTH), LAMBDA s1, handle :
              Then(EagerAccess(s1, handle), LAMBDA s2, len :
                  EagerSnapshotEach(s2, value.n, EagerKeys(s2.heap, value.n), EmptyMap)))
    ELSE EagerSnapshotEach(st, value.n, EagerKeys(st.heap, value.n), EmptyMap)

\* v.a.b.c by successive property reads
RECURSIVE EagerReadPath(_, _, _)
EagerReadPath(st, v, path) ==
    IF path = << >> THEN Ret(st, v)
    ELSE Then(EagerPropOf(st, v, Head(path)), LAMBDA s, w : EagerReadPath(s, w, Tail(path)))

\* withComponentTracking(id, () => snapshot(selector(state))): the finally
\* block leaves no scope active
EagerWithComponentTracking(st, h, prog, root) ==
    With(Then(EagerReadPath([EagerSetDepSet(st, ComponentId(h)) EXCEPT
                                !.currentTracker = ComponentTracker(ComponentId(h))],
                            ProxyOf(root), prog.path),
              LAMBDA s1, selected :
                  Then(EagerSnapshot(s1, selected), LAMBDA s2, v : Keep(s2, v))),
         LAMBDA r : [r EXCEPT !.st = NoteScope([r.st EXCEPT !.currentTracker = NoTracker],
                                               "component", st.currentTracker, r.thrown)])

\* componentSubscribers.get(id)()
EagerInvokeListener(st, store, id) ==
    IF st.componentSubscribers[store][id].kind = "react"
    THEN EagerWithComponentTracking([st EXCEPT !.obs.pings = Append(@, id.k)], id.k,
                                    st.componentSubscribers[store][id].prog, store)
    ELSE Ret([st EXCEPT !.obs.pings = Append(@, id.k)], Undefined)

\* recomputeAffectedComputeds, the scan of dependencyGraph for one changed
\* key: every computed that depends on it is evaluated again, and queued if
\* its value changed and it was not seen
RECURSIVE EagerScan(_, _, _, _)
EagerScan(st, changed, i, acc) ==
    IF i > Len(st.dependencyOrder) THEN Ret(st, acc)
    ELSE IF \/ st.dependencyOrder[i].sym
            \/ ~shouldPing(st.dependencyGraph[st.dependencyOrder[i]], changed, {})
            \/ ~Has(st.computedRegistry, st.dependencyOrder[i].k)
         THEN EagerScan(st, changed, i + 1, acc)
    ELSE Then(EagerRunComputed(st, st.dependencyOrder[i].k), LAMBDA s, v :
             EagerScan(s, changed, i + 1,
                 IF /\ s.computedRegistry[st.dependencyOrder[i].k].last
                        # st.computedRegistry[st.dependencyOrder[i].k].last
                    /\ ~(st.dependencyOrder[i].k \in acc.seen)
                 THEN [seen |-> acc.seen \cup { st.dependencyOrder[i].k },
                       changedComputed |-> acc.changedComputed \cup { st.dependencyOrder[i].k },
                       queue |-> Append(acc.queue, st.dependencyOrder[i].k)]
                 ELSE acc))

RECURSIVE recomputeAffectedComputeds(_, _)
recomputeAffectedComputeds(st, acc) ==
    IF acc.queue = << >> THEN Ret(st, acc.changedComputed)
    ELSE Then(EagerScan(st, Head(acc.queue), 1, [acc EXCEPT !.queue = Tail(@)]),
              LAMBDA s, next : recomputeAffectedComputeds(s, next))

\* notifyPathChange, the components: dependencyGraph in insertion order
RECURSIVE EagerNotifyComponents(_, _, _, _, _)
EagerNotifyComponents(st, store, changedRaw, changedComputeds, i) ==
    IF i > Len(st.dependencyOrder) THEN Ret(st, Undefined)
    ELSE IF /\ st.dependencyOrder[i].sym
            /\ shouldPing(st.dependencyGraph[st.dependencyOrder[i]], changedRaw,
                          changedComputeds)
            /\ Has(st.componentSubscribers[store], st.dependencyOrder[i])
         THEN Then(EagerInvokeListener(st, store, st.dependencyOrder[i]), LAMBDA s, v :
                  EagerNotifyComponents(s, store, changedRaw, changedComputeds, i + 1))
         ELSE EagerNotifyComponents(st, store, changedRaw, changedComputeds, i + 1)

EagerNotifyPathChange(st, store, path) ==
    Then(recomputeAffectedComputeds(NotePass(st, keyOf(path)),
                                    [seen |-> { keyOf(path) }, changedComputed |-> {},
                                     queue |-> << keyOf(path) >>]),
         LAMBDA s, changedComputeds :
             EagerNotifyComponents([s EXCEPT !.obs.affected = @ \cup changedComputeds],
                                   store, keyOf(path), changedComputeds, 1))

\* the set trap of the wrapper of raw object o: one pass, for arrays too
EagerSetTrap(st, o, key, newVal) ==
    EagerNotifyPathChange([st EXCEPT !.heap = ReflectSet(@, o, key, newVal)],
                          st.proxyCache[o].store, Append(st.proxyCache[o].base, key))

\* state.a.b.c = newVal
EagerWriteAt(st, root, path, newVal) ==
    Then(EagerReadPath(st, ProxyOf(root), SubSeq(path, 1, Len(path) - 1)), LAMBDA s, owner :
        IF owner.t # "proxy" THEN Throw(s)
        ELSE EagerSetTrap(s, owner.n, path[Len(path)], newVal))

-----------------------------------------------------------------------------
(* The cart: the state the benches and the demo build (makeOurs, lines     *)
(* 29-41; App.tsx, lines 4-19), with the values of the spec's scenario.    *)

\* the i-th item makeOurs builds
NewItem(i) ==
    (<< "id" >> :> StrVal(<< "id-" >> \o IndexKey(i))) @@
    (<< "price" >> :> Whole(1 + (i % 10))) @@
    (<< "qty" >> :> Whole(1 + (i % 3)))

CartRoot == 0

CartHeap ==
    (0 :> [arr |-> FALSE,
           f |-> (<< "items" >> :> Ref(1)) @@ (<< "taxRate" >> :> Num(1)) @@
                 (<< "subtotal" >> :> Getter) @@ (<< "tax" >> :> Getter) @@
                 (<< "total" >> :> Getter)]) @@
    (1 :> [arr |-> TRUE,
           f |-> (IndexKey(0) :> Ref(2)) @@ (IndexKey(1) :> Ref(3)) @@
                 (LENGTH :> Whole(2))]) @@
    (2 :> [arr |-> FALSE,
           f |-> (<< "id" >> :> StrVal(<< "id-0" >>)) @@ (<< "price" >> :> Whole(10)) @@
                 (<< "qty" >> :> Whole(1))]) @@
    (3 :> [arr |-> FALSE,
           f |-> (<< "id" >> :> StrVal(<< "id-1" >>)) @@ (<< "price" >> :> Whole(20)) @@
                 (<< "qty" >> :> Whole(2))])

SUBTOTAL == computedKeyForPath(<< "subtotal" >>)
TAX      == computedKeyForPath(<< "tax" >>)
TOTAL    == computedKeyForPath(<< "total" >>)

ITEM0_PRICE == << << "items" >>, IndexKey(0), << "price" >> >>
ITEM0_ID    == << << "items" >>, IndexKey(0), << "id" >> >>
ITEM1       == << << "items" >>, IndexKey(1) >>
TAXRATE     == << << "taxRate" >> >>

\* the writes a consumer makes through the wrappers
CartWrites ==
    { << ITEM0_PRICE, Whole(10) >>, << ITEM0_PRICE, Whole(15) >>,
      << TAXRATE, Num(1) >>, << TAXRATE, Num(2) >>,
      << ITEM0_ID, StrVal(<< "id-0" >>) >>,
      << ITEM1, Null >> }

Handles == { << "h1" >> }

Select(path) == [kind |-> "select", path |-> path]
ViaView(path) == [kind |-> "view", path |-> path]
Twice(path) == [kind |-> "twice", path |-> path]

CartBodies == { Select(<< << "total" >> >>), Twice(<< << "total" >> >>) }

CartGetters == { << "subtotal" >>, << "tax" >>, << "total" >> }

-----------------------------------------------------------------------------
(* Operations                                                              *)

\* proxy(initial): createStore, then makeProxy of the root with an empty base
InitWith(h, root) ==
    /\ heap = h
    /\ computedRegistry = EmptyMap
    /\ dependencyGraph = EmptyMap
    /\ dependencyOrder = << >>
    /\ proxyCache = (root :> [store |-> root, base |-> << >>, nth |-> 1])
    /\ storeOfRoot = (root :> root)
    /\ reverseRawToComp = EmptyMap
    /\ computedRawDeps = EmptyMap
    /\ computedChildDeps = EmptyMap
    /\ reverseCompToComp = EmptyMap
    /\ currentTracker = NoTracker
    /\ activeChildCapture = NoCapture
    /\ componentSubscribers = (root :> EmptyMap)
    /\ subscriberOrder = (root :> << >>)
    /\ views = {}

\* the state an operation leaves behind
Commit(r) ==
    /\ heap' = r.st.heap
    /\ computedRegistry' = r.st.computedRegistry
    /\ dependencyGraph' = r.st.dependencyGraph
    /\ dependencyOrder' = r.st.dependencyOrder
    /\ proxyCache' = r.st.proxyCache
    /\ storeOfRoot' = r.st.storeOfRoot
    /\ reverseRawToComp' = r.st.reverseRawToComp
    /\ computedRawDeps' = r.st.computedRawDeps
    /\ computedChildDeps' = r.st.computedChildDeps
    /\ reverseCompToComp' = r.st.reverseCompToComp
    /\ currentTracker' = r.st.currentTracker
    /\ activeChildCapture' = r.st.activeChildCapture
    /\ componentSubscribers' = r.st.componentSubscribers
    /\ subscriberOrder' = r.st.subscriberOrder
    /\ views' = r.st.views

IsRawObject(r) == ~r.thrown /\ r.val.t = "ref"

\* the number of elements of the array at path, -1 if there is none
LengthAt(root, path) ==
    IF IsRawObject(getValueAtPath(heap, root, path))
    THEN ArrayLength(heap, getValueAtPath(heap, root, path).val.n)
    ELSE -1

\* the value at the owner of path is an object, so the assignment reaches a set trap
Writable(root, path) ==
    IsRawObject(getValueAtPath(heap, root, SubSeq(path, 1, Len(path) - 1)))

\* state.<path> = v
Write(root, writes) ==
    \E w \in writes :
        /\ Writable(root, w[1])
        /\ Commit(WriteAt(Engine, root, w[1], w[2]))

\* state.<name> read with no scope active, and the handle it returns called
ReadValue(root, getters) ==
    \E name \in getters :
        Commit(Then(Get(Engine, root, name), LAMBDA s1, handle :
               Then(LiveAccess(s1, handle), LAMBDA s2, v : Keep(s2, v))))

\* withComponentTracking(h, body)
Track(root, bodies) ==
    \E h \in Handles, body \in bodies :
        Commit(withComponentTracking(Engine, h, body, root))

\* store.subscribeComponent(h, cb)
Subscribe(root, listeners) ==
    \E h \in Handles, cb \in listeners :
        Commit(Ret(subscribeComponent(Engine, root, h, cb), Undefined))

\* the function subscribeComponent returned, called
Unsubscribe(root) ==
    \E h \in Handles :
        /\ Has(componentSubscribers[root], ComponentId(h))
        /\ Commit(Ret(unsubscribe(Engine, root, h), Undefined))

\* a property of a view a consumer holds, read outside any scope
ViewRead(getters) ==
    \E view \in views, name \in getters :
        Commit(Then(ReadPath(Engine, view, << name >>), LAMBDA s, v : Keep(s, v)))

\* an assignment to a property of a view a consumer holds, outside any scope
ViewAssign(props, vals) ==
    \E view \in views, prop \in props, newVal \in vals :
        Commit(ViewSet(Engine, view, prop, newVal))

\* state.<slot>.<key> = v, the slot holding a ref: the owner is the value
\* inside the ref
Mutate(root, slot, writes) ==
    \E w \in writes :
        /\ isRef(getValueAtPath(heap, root, slot).val)
        /\ Commit(WriteAt(Engine, root, Append(slot, w[1]), w[2]))

\* the eager engine: state.<path> = v
EagerWrite(root, writes) ==
    \E w \in writes :
        /\ Writable(root, w[1])
        /\ Commit(EagerWriteAt(Engine, root, w[1], w[2]))

\* the eager engine: state.<name> read with no scope active, and the handle
\* it returns called
EagerReadValue(root, getters) ==
    \E name \in getters :
        Commit(Then(EagerGet(Engine, root, name), LAMBDA s1, handle :
               Then(EagerAccess(s1, handle), LAMBDA s2, v : Keep(s2, v))))

\* the eager engine: withComponentTracking(h, body)
EagerTrack(root, bodies) ==
    \E h \in Handles, body \in bodies :
        Commit(EagerWithComponentTracking(Engine, h, body, root))

\* withComponentTracking(h, body), h one of handles
TrackBy(handles, root, bodies) ==
    \E h \in handles, body \in bodies :
        Commit(withComponentTracking(Engine, h, body, root))

\* store.subscribeComponent(h, cb), h one of handles
SubscribeBy(handles, root, listeners) ==
    \E h \in handles, cb \in listeners :
        Commit(Ret(subscribeComponent(Engine, root, h, cb), Undefined))

\* proxy(raw) called on a raw object of the state
Proxy(raws) ==
    \E o \in raws : Commit(proxy(Engine, o))

\* Object.defineProperty(state.<owner>, key, { value: v, ... })
Define(root, writes) ==
    \E w \in writes :
        /\ Writable(root, w[1])
        /\ Commit(DefineAt(Engine, root, w[1], w[2]))

\* delete state.<path>
Delete(root, paths) ==
    \E path \in paths :
        /\ Writable(root, path)
        /\ Commit(DeleteAt(Engine, root, path))

\* state.<path>.push({...}) while the array is shorter than cap
Push(root, path, cap) ==
    /\ LengthAt(root, path) >= 0
    /\ LengthAt(root, path) < cap
    /\ Commit(PushAt(Engine, root, path, NewItem(LengthAt(root, path))))

\* state.<path>[state.<path>.length] = {...} while the array is shorter than cap
AssignNew(root, path, cap) ==
    /\ LengthAt(root, path) >= 0
    /\ LengthAt(root, path) < cap
    /\ Commit(WriteAt(NewObject(Engine, NewItem(LengthAt(root, path))), root,
                      Append(path, IndexKey(LengthAt(root, path))),
                      Ref(NextObject(Engine))))

-----------------------------------------------------------------------------
(* The cart, read and written with no subscriber                           *)

Init == InitWith(CartHeap, CartRoot)

Next ==
    \/ Write(CartRoot, CartWrites)
    \/ ReadValue(CartRoot, CartGetters)
    \/ Track(CartRoot, CartBodies)

Spec == Init /\ [][Next]_vars

-----------------------------------------------------------------------------
(* The cart with a subscribed component (react.ts)                         *)

SubWrites == { << ITEM0_PRICE, Whole(15) >>, << TAXRATE, Num(2) >> }

SubBodies == { Select(<< << "total" >> >>) }

SubListeners ==
    { Listener("count", Select(<< >>)), Listener("react", Select(<< << "total" >> >>)) }

NextSub ==
    \/ Write(CartRoot, SubWrites)
    \/ Delete(CartRoot, { ITEM0_ID })
    \/ Track(CartRoot, SubBodies)
    \/ Subscribe(CartRoot, SubListeners)
    \/ Unsubscribe(CartRoot)

SpecSub == Init /\ [][NextSub]_vars

-----------------------------------------------------------------------------
(* Scopes inside scopes: component bodies that read through views, bodies   *)
(* and evaluations that throw                                              *)

ScopeWrites == { << ITEM0_PRICE, Whole(15) >>, << ITEM1, Null >> }

ScopeBodies ==
    { Select(<< << "total" >> >>), ViaView(<< << "total" >> >>),
      Select(<< << "items" >>, IndexKey(5), << "qty" >> >>) }

ScopeListeners == { Listener("react", ViaView(<< << "total" >> >>)) }

\* the properties a consumer assigns on a view: a leaf, two computeds, the array
ViewProps == { << "taxRate" >>, << "total" >>, << "tax" >>, << "items" >> }

NextScope ==
    \/ Write(CartRoot, ScopeWrites)
    \/ Track(CartRoot, ScopeBodies)
    \/ ViewRead({ << "total" >> })
    \/ ViewAssign(ViewProps, { Num(2), Null })
    \/ Subscribe(CartRoot, ScopeListeners)

SpecScope == Init /\ [][NextScope]_vars

-----------------------------------------------------------------------------
(* A list of eight items and a component that selects one field of one     *)
(* item (makeOurs(n), lines 29-41)                                         *)

SelLen == 8

MaxLen == 10

SelHeap ==
    (0 :> [arr |-> FALSE,
           f |-> (<< "items" >> :> Ref(1)) @@ (<< "taxRate" >> :> Num(1)) @@
                 (<< "subtotal" >> :> Getter) @@ (<< "tax" >> :> Getter) @@
                 (<< "total" >> :> Getter)]) @@
    (1 :> [arr |-> TRUE,
           f |-> [k \in { IndexKey(i) : i \in 0..(SelLen - 1) } \cup { LENGTH } |->
                    IF k = LENGTH THEN Whole(SelLen) ELSE Ref(IndexOfKey(k) + 2)]]) @@
    [o \in 2..(SelLen + 1) |-> [arr |-> FALSE, f |-> NewItem(o - 2)]]

ITEMS       == << << "items" >> >>
ITEM3_QTY   == << << "items" >>, IndexKey(3), << "qty" >> >>
ITEM7_PRICE == << << "items" >>, IndexKey(7), << "price" >> >>

SelWrites ==
    { << ITEM7_PRICE, Whole(8) >>, << ITEM7_PRICE, Whole(9) >>,
      << ITEM3_QTY, Whole(1) >>, << ITEM3_QTY, Whole(2) >> }

SelBodies == { Select(ITEM3_QTY), Select(ITEM7_PRICE) }

SelListeners == { Listener("count", Select(<< >>)), Listener("react", Select(ITEM3_QTY)) }

InitSel == InitWith(SelHeap, CartRoot)

NextSel ==
    \/ Write(CartRoot, SelWrites)
    \/ Push(CartRoot, ITEMS, MaxLen)
    \/ AssignNew(CartRoot, ITEMS, MaxLen)
    \/ Track(CartRoot, SelBodies)
    \/ Subscribe(CartRoot, SelListeners)
    \/ Unsubscribe(CartRoot)

SpecSel == InitSel /\ [][NextSel]_vars

-----------------------------------------------------------------------------
(* The public entry points called again on objects of the cart: proxy on   *)
(* the root and on an item, reads that reach nested objects, a write that  *)
(* puts item 0 in slot 1 as well                                           *)

MaxStores == 3

ApiRaws == { CartRoot, 2 }

ApiWrites == { << ITEM0_PRICE, Whole(15) >>, << ITEM1, Ref(2) >> }

ApiBodies == { Select(ITEM0_PRICE), Select(<< << "items" >>, IndexKey(1), << "qty" >> >>) }

NextApi ==
    \/ Cardinality(DOMAIN componentSubscribers) < MaxStores /\ Proxy(ApiRaws)
    \/ Write(CartRoot, ApiWrites)
    \/ Track(CartRoot, ApiBodies)

SpecApi == Init /\ [][NextApi]_vars

-----------------------------------------------------------------------------
(* Structural writes on the items array of the cart, by assignment, by      *)
(* Object.defineProperty and by delete, next to writes on plain objects     *)

ITEM2 == << << "items" >>, IndexKey(2) >>

ITEMS_LENGTH == << << "items" >>, LENGTH >>

Op(op, path, val) == [op |-> op, path |-> path, val |-> val]

ArrOps ==
    { Op("set", ITEM1, Null), Op("set", ITEMS_LENGTH, Whole(1)), Op("set", TAXRATE, Num(2)),
      Op("define", ITEM2, Null), Op("define", ITEM0_PRICE, Whole(15)),
      Op("delete", ITEM1, Undefined), Op("delete", ITEM0_ID, Undefined) }

\* the paths, with the values if any, of the operations of one kind
OpsOf(op) == { << w.path, w.val >> : w \in { x \in ArrOps : x.op = op } }

ArrBodies == { Select(<< << "total" >> >>), Select(ITEMS_LENGTH) }

ArrListeners ==
    { Listener("count", Select(<< >>)), Listener("react", Select(<< << "total" >> >>)) }

NextArr ==
    \/ Write(CartRoot, OpsOf("set"))
    \/ Define(CartRoot, OpsOf("define"))
    \/ Delete(CartRoot, { w[1] : w \in OpsOf("delete") })
    \/ Track(CartRoot, ArrBodies)
    \/ Subscribe(CartRoot, ArrListeners)

SpecArr == Init /\ [][NextArr]_vars

-----------------------------------------------------------------------------
(* Two components on the cart, tracked and subscribed in either order; an   *)
(* item replaced by null, and a slot far past the end assigned              *)

OrdHandles == { << "h1" >>, << "h2" >> }

ITEM10 == << << "items" >>, IndexKey(10) >>

OrdWrites == { << ITEM1, Null >>, << ITEM10, Null >>, << TAXRATE, Num(2) >> }

OrdBodies == { Select(ITEM1), Select(TAXRATE), Select(<< << "total" >> >>) }

NextOrd ==
    \/ Write(CartRoot, OrdWrites)
    \/ TrackBy(OrdHandles, CartRoot, OrdBodies)
    \/ SubscribeBy(OrdHandles, CartRoot, { Listener("count", Select(<< >>)) })

SpecOrd == Init /\ [][NextOrd]_vars

-----------------------------------------------------------------------------
(* The cart with a slot that holds a ref: state.config = ref({ size: 1 }).  *)
(* The slot is assigned another ref, the objects inside are mutated, and a  *)
(* component selects the slot or a field of the object inside.             *)

CONFIG == << << "config" >> >>

CONFIG_SIZE == << << "config" >>, << "size" >> >>

RefHeap ==
    [CartHeap EXCEPT ![CartRoot].f = Put(@, << "config" >>, ref(4))] @@
    (4 :> [arr |-> FALSE, f |-> (<< "size" >> :> Whole(1))]) @@
    (5 :> [arr |-> FALSE, f |-> (<< "size" >> :> Whole(1))])

RefWrites == { << CONFIG, ref(4) >>, << CONFIG, ref(5) >>, << TAXRATE, Num(2) >> }

RefMutations == { << << "size" >>, Whole(1) >>, << << "size" >>, Whole(2) >> }

RefBodies == { Select(CONFIG), Select(CONFIG_SIZE), Select(<< << "total" >> >>) }

RefListeners == { Listener("count", Select(<< >>)), Listener("react", Select(CONFIG_SIZE)) }

InitRef == InitWith(RefHeap, CartRoot)

NextRef ==
    \/ Write(CartRoot, RefWrites)
    \/ Mutate(CartRoot, CONFIG, RefMutations)
    \/ Track(CartRoot, RefBodies)
    \/ Subscribe(CartRoot, RefListeners)

SpecRef == InitRef /\ [][NextRef]_vars

-----------------------------------------------------------------------------
(* The cart on the eager engine (valtio.ts): a component that takes the     *)
(* snapshot of the whole state (useSnapshot(state), App.tsx) or selects one *)
(* getter, untracked reads, writes, a listener                              *)

EagerWrites ==
    { << ITEM0_PRICE, Whole(10) >>, << ITEM0_PRICE, Whole(15) >>,
      << TAXRATE, Num(1) >>, << TAXRATE, Num(2) >> }

EagerBodies == { Select(<< >>), Select(<< << "total" >> >>), Select(<< << "subtotal" >> >>) }

EagerListeners == { Listener("count", Select(<< >>)), Listener("react", Select(<< >>)) }

NextEager ==
    \/ EagerWrite(CartRoot, EagerWrites)
    \/ EagerReadValue(CartRoot, CartGetters)
    \/ EagerTrack(CartRoot, EagerBodies)
    \/ Subscribe(CartRoot, EagerListeners)

SpecEager == Init /\ [][NextEager]_vars

-----------------------------------------------------------------------------
(* Two roots in one module (SMALL_OURS and LARGE_OURS, lines 66-67): the    *)
(* cart, and a second state of the same shape with one item (makeOurs(1)).  *)
(* Each is handed to proxy() once; both are read and written.               *)

OtherRoot == 4

RootsHeap ==
    CartHeap @@
    (4 :> [arr |-> FALSE,
           f |-> (<< "items" >> :> Ref(5)) @@ (<< "taxRate" >> :> Num(1)) @@
                 (<< "subtotal" >> :> Getter) @@ (<< "tax" >> :> Getter) @@
                 (<< "total" >> :> Getter)]) @@
    (5 :> [arr |-> TRUE, f |-> (IndexKey(0) :> Ref(6)) @@ (LENGTH :> Whole(1))]) @@
    (6 :> [arr |-> FALSE, f |-> NewItem(0)])

RootsWrites ==
    { << TAXRATE, Num(1) >>, << TAXRATE, Num(2) >>, << ITEM0_PRICE, Whole(15) >> }

\* proxy(first); proxy(second)
InitRoots ==
    /\ heap = RootsHeap
    /\ computedRegistry = EmptyMap
    /\ dependencyGraph = EmptyMap
    /\ dependencyOrder = << >>
    /\ proxyCache = (CartRoot :> [store |-> CartRoot, base |-> << >>, nth |-> 1]) @@
                    (OtherRoot :> [store |-> OtherRoot, base |-> << >>, nth |-> 1])
    /\ storeOfRoot = (CartRoot :> CartRoot) @@ (OtherRoot :> OtherRoot)
    /\ reverseRawToComp = EmptyMap
    /\ computedRawDeps = EmptyMap
    /\ computedChildDeps = EmptyMap
    /\ reverseCompToComp = EmptyMap
    /\ currentTracker = NoTracker
    /\ activeChildCapture = NoCapture
    /\ componentSubscribers = (CartRoot :> EmptyMap) @@ (OtherRoot :> EmptyMap)
    /\ subscriberOrder = (CartRoot :> << >>) @@ (OtherRoot :> << >>)
    /\ views = {}

NextRoots ==
    \/ Write(CartRoot, RootsWrites)
    \/ Write(OtherRoot, RootsWrites)
    \/ ReadValue(CartRoot, CartGetters)
    \/ ReadValue(OtherRoot, CartGetters)

SpecRoots == InitRoots /\ [][NextRoots]_vars

-----------------------------------------------------------------------------
(* Items moved inside the array of the cart: the caller keeps the raw items *)
(* a and b it built the cart from, assigns one to the other's slot and      *)
(* cuts the array, next to price writes, tracked reads and getter reads.    *)

ITEM0 == << << "items" >>, IndexKey(0) >>

ITEM1_PRICE == << << "items" >>, IndexKey(1), << "price" >> >>

MoveWrites ==
    { << ITEM0, Ref(3) >>, << ITEM1, Ref(2) >>, << ITEMS_LENGTH, Whole(1) >>,
      << ITEM0_PRICE, Whole(15) >>, << ITEM1_PRICE, Whole(25) >> }

MoveBodies == { Select(ITEM0_PRICE), Select(ITEM1_PRICE), Select(<< << "subtotal" >> >>) }

NextMove ==
    \/ Write(CartRoot, MoveWrites)
    \/ Track(CartRoot, MoveBodies)
    \/ ReadValue(CartRoot, { << "subtotal" >> })

SpecMove == Init /\ [][NextMove]_vars

-----------------------------------------------------------------------------
(* A getter that returns a node: the cart with get first() { return         *)
(* this.items[0]; }, slot 0 reassigned to either item the caller holds.     *)

FIRST == computedKeyForPath(<< "first" >>)

NodeHeap ==
    [CartHeap EXCEPT ![CartRoot].f = @ @@ (<< "first" >> :> Getter)]

NodeWrites ==
    { << ITEM0, Ref(2) >>, << ITEM0, Ref(3) >>, << ITEM0_PRICE, Whole(15) >> }

NodeGetters == { << "first" >>, << "subtotal" >> }

NodeBodies == { Select(<< << "first" >>, << "price" >> >>), Select(<< << "subtotal" >> >>) }

InitNode == InitWith(NodeHeap, CartRoot)

NextNode ==
    \/ Write(CartRoot, NodeWrites)
    \/ ReadValue(CartRoot, NodeGetters)
    \/ Track(CartRoot, NodeBodies)

SpecNode == InitNode /\ [][NextNode]_vars

-----------------------------------------------------------------------------
(* A getter that calls a deferred handle: the cart with                     *)
(*   const taxHandle = state.tax;            read with no scope active      *)
(*   get shown() { return taxHandle(); }                                    *)

SHOWN == computedKeyForPath(<< "shown" >>)

HandleHeap ==
    [CartHeap EXCEPT ![CartRoot].f = @ @@ (<< "shown" >> :> Getter)]

HandleWrites ==
    { << TAXRATE, Num(1) >>, << TAXRATE, Num(2) >>,
      << ITEM0_PRICE, Whole(10) >>, << ITEM0_PRICE, Whole(15) >> }

HandleGetters == { << "shown" >>, << "tax" >> }

HandleBodies == { Select(<< << "shown" >> >>), Select(<< << "total" >> >>) }

\* proxy(cart); const taxHandle = state.tax
InitHandle ==
    /\ heap = HandleHeap
    /\ computedRegistry = (TAX :> [run |-> [recv |-> CartRoot, getter |-> << "tax" >>],
                                   last |-> Undefined, dirty |-> TRUE])
    /\ dependencyGraph = EmptyMap
    /\ dependencyOrder = << >>
    /\ proxyCache = (CartRoot :> [store |-> CartRoot, base |-> << >>, nth |-> 1])
    /\ storeOfRoot = (CartRoot :> CartRoot)
    /\ reverseRawToComp = EmptyMap
    /\ computedRawDeps = EmptyMap
    /\ computedChildDeps = EmptyMap
    /\ reverseCompToComp = EmptyMap
    /\ currentTracker = NoTracker
    /\ activeChildCapture = NoCapture
    /\ componentSubscribers = (CartRoot :> EmptyMap)
    /\ subscriberOrder = (CartRoot :> << >>)
    /\ views = {}

NextHandle ==
    \/ Write(CartRoot, HandleWrites)
    \/ ReadValue(CartRoot, HandleGetters)
    \/ Track(CartRoot, HandleBodies)

SpecHandle == InitHandle /\ [][NextHandle]_vars

-----------------------------------------------------------------------------
(* Properties.  What an operation does (which evaluation functions it ran,  *)
(* which listeners it called) is read off the result of applying the       *)
(* operation to the state the engine is in: a property of the form "in     *)
(* every reachable state, operation X has effect Y" is an invariant.       *)

IsEvaluated(c) == Has(computedRegistry, c) /\ Has(computedRawDeps, c)

IsClean(c) == Has(computedRegistry, c) /\ ~computedRegistry[c].dirty

IsDirty(c) == Has(computedRegistry, c) /\ computedRegistry[c].dirty

\* what the evaluation function of c returns on the raw data h
FunctionOf(h, c) ==
    RawGetter(h, computedRegistry[c].run.recv, computedRegistry[c].run.getter)

\* the state st at the start of a later operation
Later(st) == [st EXCEPT !.obs = NoObs]

\* state.<getter of c>, read with no scope active and resolved
ReadOf(st, c) ==
    Then(Get(st, computedRegistry[c].run.recv, computedRegistry[c].run.getter),
         LAMBDA s, handle : LiveAccess(s, handle))

RunsOf(r, c) == GetOr(r.st.obs.runs, c, 0)

SameOutcome(r, o) == r.thrown = o.thrown /\ (~o.thrown => r.val = o.val)

\* C1, first part: a computed is never Clean while its memoized value differs
\* from what its evaluation function would return on the current data.
C1_NeverStale ==
    \A c \in DOMAIN computedRegistry :
        IsClean(c) => SameOutcome(RawRet(computedRegistry[c].last), FunctionOf(heap, c))

\* C1, second part: after a write to a raw path that the last evaluation of C
\* read, the next read of C runs C's function again and returns what the
\* function gives on the data as written.
C1_RerunAfterWrite ==
    \A c \in DOMAIN computedRegistry, w \in CartWrites :
        (IsClean(c) /\ keyOf(w[1]) \in computedRawDeps[c] /\ Writable(CartRoot, w[1])) =>
            With(WriteAt(Engine, CartRoot, w[1], w[2]), LAMBDA wr :
            With(ReadOf(Later(wr.st), c), LAMBDA rd :
                /\ ~wr.thrown
                /\ RunsOf(rd, c) >= 1
                /\ SameOutcome(rd, FunctionOf(wr.st.heap, c))))

C2_Minimality ==
    \A c \in DOMAIN computedRegistry, w \in CartWrites :
        (/\ IsClean(c)
         /\ Writable(CartRoot, w[1])
         /\ ~(keyOf(w[1]) \in AllPrefixes(computedRawDeps[c]))) =>
            ~WriteAt(Engine, CartRoot, w[1], w[2]).st.computedRegistry[c].dirty

\* the case of C2: subtotal is Clean, having read price and qty of every item
\* and never an id, and items[0].id can be written
C2_Case ==
    /\ IsClean(SUBTOTAL)
    /\ ~(keyOf(ITEM0_ID) \in AllPrefixes(computedRawDeps[SUBTOTAL]))
    /\ Writable(CartRoot, ITEM0_ID)

\* the listeners of the store no call of which reads anything
CountOnly == \A id \in DOMAIN componentSubscribers[CartRoot] :
                 componentSubscribers[CartRoot][id].kind = "count"

\* what a write pass may do to the computeds: mark them; every evaluation that
\* runs before the trap returns was asked for by a read a listener made, a
\* marked computed that nobody read is Dirty and was not run, and with no
\* reading listener nothing is evaluated at all
LazyPass(r) ==
    /\ DOMAIN r.st.obs.runs \subseteq r.st.obs.reads
    /\ \A c \in r.st.obs.affected \ r.st.obs.reads :
          r.st.computedRegistry[c].dirty /\ RunsOf(r, c) = 0
    /\ CountOnly => r.st.obs.runs = EmptyMap /\ r.st.obs.reads = {}

\* C3 (laziness): a write pass, whether started by the set trap or by the
\* deleteProperty trap, invokes no evaluation function; from the write that
\* marks C Dirty to the next read of C, the function of C runs zero times.
C3_Laziness ==
    /\ \A w \in SubWrites :
          Writable(CartRoot, w[1]) => LazyPass(WriteAt(Engine, CartRoot, w[1], w[2]))
    /\ Writable(CartRoot, ITEM0_ID) => LazyPass(DeleteAt(Engine, CartRoot, ITEM0_ID))

\* C3 is exercised: a listener is subscribed for a component that read total;
\* items[0].price was written after total was evaluated (55); total is Dirty
\* and still holds 55.
C3_Witness ==
    /\ Has(componentSubscribers[CartRoot], ComponentId(<< "h1" >>))
    /\ CountOnly
    /\ TOTAL \in GetOr(dependencyGraph, ComponentId(<< "h1" >>), {})
    /\ heap[2].f[<< "price" >>] = Whole(15)
    /\ IsDirty(TOTAL) /\ computedRegistry[TOTAL].last = Whole(55)

\* C4 (transitive propagation): with subtotal, tax and total all evaluated, a
\* write to taxRate marks tax and total Dirty and no other computed, leaves
\* the flag of subtotal as it was, and the next read of total runs the
\* function of tax once and the function of total once.
C4_Propagation ==
    \A w \in CartWrites :
        (/\ w[1] = TAXRATE
         /\ IsEvaluated(SUBTOTAL) /\ IsEvaluated(TAX) /\ IsEvaluated(TOTAL)
         /\ ~FunctionOf(heap, TOTAL).thrown) =>
            With(WriteAt(Engine, CartRoot, w[1], w[2]), LAMBDA wr :
            With(ReadOf(Later(wr.st), TOTAL), LAMBDA rd :
                /\ wr.st.obs.affected = { TAX, TOTAL }
                /\ wr.st.computedRegistry[TAX].dirty
                /\ wr.st.computedRegistry[TOTAL].dirty
                /\ wr.st.computedRegistry[SUBTOTAL].dirty = computedRegistry[SUBTOTAL].dirty
                /\ RunsOf(rd, TAX) = 1
                /\ RunsOf(rd, TOTAL) = 1
                /\ (IsClean(SUBTOTAL) => RunsOf(rd, SUBTOTAL) = 0)))

\* C4 is exercised: taxRate was written after the three were evaluated; tax and
\* total are Dirty with the values of the old rate, subtotal is Clean.
C4_Witness ==
    /\ heap[CartRoot].f[<< "taxRate" >>] = Num(2)
    /\ IsClean(SUBTOTAL) /\ computedRegistry[SUBTOTAL].last = Whole(50)
    /\ IsDirty(TAX) /\ computedRegistry[TAX].last = Whole(5)
    /\ IsDirty(TOTAL) /\ computedRegistry[TOTAL].last = Whole(55)

Subscribed(h) == Has(componentSubscribers[CartRoot], ComponentId(h))

DepsOf(h) == GetOr(dependencyGraph, ComponentId(h), {})

\* how many times the listener of h was called
Pings(r, h) == Cardinality({ i \in DOMAIN r.st.obs.pings : r.st.obs.pings[i] = h })

\* C5 (subscriber precision): a subscribed component whose tracked read was
\* items[3].qty and nothing else is not called by a write to items[7].price
\* and is called by a write to items[3].qty.
C5_Selective ==
    \A h \in Handles, w \in SelWrites :
        (Subscribed(h) /\ DepsOf(h) = { keyOf(ITEM3_QTY) }) =>
            With(WriteAt(Engine, CartRoot, w[1], w[2]), LAMBDA wr :
                /\ ~wr.thrown
                /\ w[1] = ITEM7_PRICE => Pings(wr, h) = 0
                /\ w[1] = ITEM3_QTY => Pings(wr, h) >= 1)

\* C5 is exercised: the component read items[3].qty only and is subscribed, and
\* both items[7].price and items[3].qty have been written.
C5_Witness ==
    /\ Subscribed(<< "h1" >>)
    /\ DepsOf(<< "h1" >>) = { keyOf(ITEM3_QTY) }
    /\ heap[9].f[<< "price" >>] = Whole(9)
    /\ heap[5].f[<< "qty" >>] = Whole(2)

\* C6 (array length): a subscribed component whose tracked read was
\* items[3].qty and nothing else is called when the length of items changes,
\* by push or by an assignment to the index one past the end.
C6_LengthPing ==
    \A h \in Handles :
        (/\ Subscribed(h) /\ DepsOf(h) = { keyOf(ITEM3_QTY) }
         /\ LengthAt(CartRoot, ITEMS) < MaxLen) =>
            /\ Pings(PushAt(Engine, CartRoot, ITEMS, NewItem(LengthAt(CartRoot, ITEMS))), h) >= 1
            /\ Pings(WriteAt(NewObject(Engine, NewItem(LengthAt(CartRoot, ITEMS))), CartRoot,
                             Append(ITEMS, IndexKey(LengthAt(CartRoot, ITEMS))),
                             Ref(NextObject(Engine))), h) >= 1

\* the case of C6: the component read items[3].qty only, is subscribed, and the
\* array has grown
C6_Case ==
    /\ Subscribed(<< "h1" >>)
    /\ DepsOf(<< "h1" >>) = { keyOf(ITEM3_QTY) }
    /\ LengthAt(CartRoot, ITEMS) > SelLen

\* C7 (idempotent re-read): two reads of the same computed in a row under a
\* component scope return the same value, and no evaluation function runs
\* more than once over the two reads.
C7_RereadIdempotent ==
    \A h \in Handles, name \in CartGetters :
        With(withComponentTracking(Engine, h, Twice(<< name >>), CartRoot), LAMBDA r :
            ~r.thrown =>
                /\ Len(r.st.obs.results) = 2
                /\ r.st.obs.results[1] = r.st.obs.results[2]
                /\ \A c \in DOMAIN r.st.obs.runs : r.st.obs.runs[c] <= 1)

\* C7 is exercised: a component read total under its scope after taxRate was
\* raised, and total is Clean with the value of that state.
C7_Witness ==
    /\ TOTAL \in DepsOf(<< "h1" >>)
    /\ heap[CartRoot].f[<< "taxRate" >>] = Num(2)
    /\ heap[2].f[<< "price" >>] = Whole(10)
    /\ IsClean(TOTAL) /\ computedRegistry[TOTAL].last = Whole(60)

\* subtotal, tax and total read one after the other with no scope active
ReadAll(st) ==
    Then(Then(Get(st, CartRoot, << "subtotal" >>), LAMBDA s, h : LiveAccess(s, h)),
         LAMBDA s1, subtotal :
    Then(Then(Get(s1, CartRoot, << "tax" >>), LAMBDA s, h : LiveAccess(s, h)),
         LAMBDA s2, tax :
    Then(Then(Get(s2, CartRoot, << "total" >>), LAMBDA s, h : LiveAccess(s, h)),
         LAMBDA s3, total : Ret(s3, << subtotal, tax, total >>))))

\* the reads of the scenario: on the initial data, and after items[0].price = 15
\* written either after those reads or with nothing read before
ScenarioReads(first, second) ==
    heap = CartHeap =>
        /\ SameOutcome(ReadAll(Engine), RawRet(first))
        /\ SameOutcome(Then(ReadAll(Engine), LAMBDA s1, before :
                        Then(WriteAt(s1, CartRoot, ITEM0_PRICE, Whole(15)), LAMBDA s2, ok :
                            ReadAll(s2))),
                       RawRet(second))
        /\ SameOutcome(Then(WriteAt(Engine, CartRoot, ITEM0_PRICE, Whole(15)), LAMBDA s2, ok :
                            ReadAll(s2)),
                       RawRet(second))

\* C8 (scenario values) as stated: on items 10 x 1 and 20 x 2 with taxRate 0.1
\* the reads give subtotal 50, tax 5, total 55; after items[0].price = 15 they
\* give subtotal 60, tax 6, total 66.
C8_ScenarioValues ==
    ScenarioReads(<< Whole(50), Whole(5), Whole(55) >>, << Whole(60), Whole(6), Whole(66) >>)

\* C8 with the sums redone: on items 10 x 1 and 20 x 2 with taxRate 0.1 the
\* reads give subtotal 50, tax 5, total 55, whatever was read before; after
\* items[0].price = 15 they give subtotal 55 (15 x 1 + 20 x 2), tax 5.5 and
\* total 60.5.
C8_ScenarioValuesRedone ==
    ScenarioReads(<< Whole(50), Whole(5), Whole(55) >>, << Whole(55), Num(55), Num(605) >>)

\* C8 is exercised: the three were read on the initial data, items[0].price was
\* set to 15 and the three were read again.
C8_Witness ==
    /\ heap = [CartHeap EXCEPT ![2].f[<< "price" >>] = Whole(15)]
    /\ IsClean(SUBTOTAL) /\ computedRegistry[SUBTOTAL].last = Whole(55)
    /\ IsClean(TAX) /\ computedRegistry[TAX].last = Num(55)
    /\ IsClean(TOTAL) /\ computedRegistry[TOTAL].last = Num(605)

\* the tracked read of h was the computed total and nothing else
ReadOnlyTotal(h) ==
    /\ TOTAL \in DepsOf(h)
    /\ DepsOf(h) = { TOTAL } \cup computedRawDeps[TOTAL] \cup AllPrefixes(computedRawDeps[TOTAL])

ScopesRestored(r) ==
    /\ r.st.currentTracker = currentTracker
    /\ \A e \in r.st.obs.scopes : e.restored = e.saved

\* C10 (scope stack discipline): withComponentTracking, runComputed and the
\* read of a bound view each restore, on return and on throw, the scope that
\* was active when they were entered; after any nesting of them the active
\* scope is what it was before, which between operations is none.
C10_ScopeDiscipline ==
    /\ currentTracker = NoTracker
    /\ \A h \in Handles, body \in ScopeBodies :
          ScopesRestored(withComponentTracking(Engine, h, body, CartRoot))
    /\ \A w \in ScopeWrites :
          Writable(CartRoot, w[1]) => ScopesRestored(WriteAt(Engine, CartRoot, w[1], w[2]))
    /\ \A view \in views : ScopesRestored(ReadPath(Engine, view, << << "total" >> >>))

\* an evaluation entered from another evaluation, itself entered from the read
\* of a bound view inside a component scope, ends by a throw in this operation
NestedThrow(r) ==
    /\ r.thrown
    /\ \E e \in r.st.obs.scopes : e.kind = "computed" /\ e.threw /\ e.saved.kind = "computed"
    /\ \E e \in r.st.obs.scopes : e.kind = "view" /\ e.threw /\ e.saved.kind = "component"
    /\ \E e \in r.st.obs.scopes : e.kind = "component" /\ e.threw

\* C10 is exercised: items[1] is null, so subtotal throws; a component body
\* that read total through a bound view has thrown out of all its scopes (the
\* component recorded total and nothing else), and would again.
C10_Witness ==
    /\ heap[1].f[IndexKey(1)] = Null
    /\ DepsOf(<< "h1" >>) = { TOTAL }
    /\ views # {}
    /\ NestedThrow(withComponentTracking(Engine, << "h1" >>, ViaView(<< << "total" >> >>),
                                         CartRoot))

\* C11 (dependency sets are rebuilt per evaluation): a subscribed handle whose
\* tracked run read P, tracked again with a run that reads only Q, has Q and
\* nothing else recorded; a write to P then does not call its listener and a
\* write to Q does.
C11_DepsRebuilt ==
    \A h \in Handles, P \in { ITEM3_QTY, ITEM7_PRICE }, Q \in { ITEM3_QTY, ITEM7_PRICE } :
        (P # Q /\ Subscribed(h) /\ DepsOf(h) = { keyOf(P) }) =>
            With(withComponentTracking(Engine, h, Select(Q), CartRoot), LAMBDA second :
                /\ ~second.thrown
                /\ second.st.dependencyGraph[ComponentId(h)] = { keyOf(Q) }
                /\ \A w \in SelWrites :
                      /\ w[1] = P => Pings(WriteAt(Later(second.st), CartRoot, w[1], w[2]), h) = 0
                      /\ w[1] = Q => Pings(WriteAt(Later(second.st), CartRoot, w[1], w[2]), h) >= 1)

\* C11 is exercised: the handle is subscribed with the listener that tracks
\* items[3].qty, a later run read items[7].price and that alone is recorded,
\* and both fields have been written.
C11_Witness ==
    /\ Subscribed(<< "h1" >>)
    /\ componentSubscribers[CartRoot][ComponentId(<< "h1" >>)].kind = "react"
    /\ DepsOf(<< "h1" >>) = { keyOf(ITEM7_PRICE) }
    /\ heap[5].f[<< "qty" >>] = Whole(2)
    /\ heap[9].f[<< "price" >>] = Whole(9)

\* state.<name> read with no scope active, and the handle it returns called
UntrackedRead(st, name) ==
    Then(Get(st, CartRoot, name), LAMBDA s, handle : LiveAccess(s, handle))

\* the read r of computed c ended in the exception of the evaluation function:
\* the function of c ran, every scope the read entered was left by the
\* exception, and every computed whose function ran is Dirty with the value it
\* had memoized before
FailedRead(r, c) ==
    /\ r.thrown
    /\ RunsOf(r, c) = 1
    /\ \A e \in r.st.obs.scopes : e.threw
    /\ \A k \in DOMAIN r.st.obs.runs :
          /\ r.st.computedRegistry[k].dirty
          /\ r.st.computedRegistry[k].last =
                 GetOr(computedRegistry, k, [last |-> Undefined]).last

\* C12 (evaluation error retry): when the evaluation function of a computed
\* throws, the exception reaches the reader (a component scope, a parent
\* computed, a caller with no scope), the entry stays Dirty with no value
\* memoized from the failed run, and the next read runs the function again.
C12_ErrorRetry ==
    \A name \in CartGetters, h \in Handles :
        RawGetter(heap, CartRoot, name).thrown =>
            /\ With(withComponentTracking(Engine, h, Select(<< name >>), CartRoot), LAMBDA r :
                   /\ FailedRead(r, computedKeyForPath(name))
                   /\ FailedRead(withComponentTracking(Later(r.st), h, Select(<< name >>),
                                                       CartRoot),
                                 computedKeyForPath(name)))
            /\ With(UntrackedRead(Engine, name), LAMBDA r :
                   /\ FailedRead(r, computedKeyForPath(name))
                   /\ FailedRead(UntrackedRead(Later(r.st), name), computedKeyForPath(name)))

\* C12 is exercised: items[1] is null, total was evaluated before (55) and read
\* again since: the evaluation failed in its first read, so the set it was
\* filling is empty, and total is Dirty and still holds 55.
C12_Witness ==
    /\ heap[1].f[IndexKey(1)] = Null
    /\ IsDirty(TOTAL) /\ computedRegistry[TOTAL].last = Whole(55)
    /\ Has(dependencyGraph, ComputedId(TOTAL))
    /\ dependencyGraph[ComputedId(TOTAL)] = {}

\* the memoized value, the raw-dependency record and the two reverse indices
\* are after the read r what they are now
RecordsUntouched(r, c) ==
    /\ r.st.computedRegistry[c].last = computedRegistry[c].last
    /\ r.st.computedRawDeps = computedRawDeps
    /\ r.st.reverseRawToComp = reverseRawToComp
    /\ r.st.reverseCompToComp = reverseCompToComp

\* the dependencyGraph entry of c is after the read r what it is now
PublishedUntouched(r, c) ==
    /\ Has(r.st.dependencyGraph, ComputedId(c)) = Has(dependencyGraph, ComputedId(c))
    /\ GetOr(r.st.dependencyGraph, ComputedId(c), {}) = GetOr(dependencyGraph, ComputedId(c), {})

\* C13 (a failed evaluation leaves prior state untouched): when the evaluation
\* function of a computed throws after some reads, the memoized value, the
\* dependencyGraph entry, the raw-dependency record and both reverse indices
\* are the same as before the failed evaluation.
C13_FailureUntouched ==
    \A c \in DOMAIN computedRegistry :
        (IsEvaluated(c) /\ FunctionOf(heap, c).thrown) =>
            With(ReadOf(Engine, c), LAMBDA r :
                r.thrown /\ RecordsUntouched(r, c) /\ PublishedUntouched(r, c))

\* C13 without the dependencyGraph entry: the memoized value, the
\* raw-dependency record and both reverse indices are the same as before the
\* failed evaluation.
C13_RecordsUntouched ==
    \A c \in DOMAIN computedRegistry :
        (IsEvaluated(c) /\ FunctionOf(heap, c).thrown) =>
            With(ReadOf(Engine, c), LAMBDA r : r.thrown /\ RecordsUntouched(r, c))

\* the case of C13: subtotal was evaluated on two items, items[1] is null now
\* and the dependencyGraph entry of subtotal still is the set of that evaluation
C13_Case ==
    /\ heap[1].f[IndexKey(1)] = Null
    /\ IsEvaluated(SUBTOTAL) /\ IsDirty(SUBTOTAL)
    /\ dependencyGraph[ComputedId(SUBTOTAL)] = computedRawDeps[SUBTOTAL]

\* the store whose passes the traps of the wrapper of raw object o start
OwningStore(o) == proxyCache[o].store

\* getStoreFor changes nothing
Unchanged(r) == r.st = Engine

\* C14 (store lookup): getStoreFor returns the owning store for the root
\* wrapper, for every nested wrapper and for the raw root object, and throws,
\* changing no state, for an object that was never handed to proxy(), a raw
\* nested object included.
C14_StoreLookup ==
    /\ \A o \in DOMAIN proxyCache :
          With(getStoreFor(Engine, ProxyOf(o)), LAMBDA r :
              ~r.thrown /\ r.val = OwningStore(o) /\ Unchanged(r))
    /\ \A o \in DOMAIN storeOfRoot :
          With(getStoreFor(Engine, Ref(o)), LAMBDA r :
              ~r.thrown /\ r.val = OwningStore(o) /\ Unchanged(r))
    /\ \A o \in DOMAIN heap \ DOMAIN storeOfRoot :
          With(getStoreFor(Engine, Ref(o)), LAMBDA r : r.thrown /\ Unchanged(r))

\* the case of C14: proxy() was called on the root a second time, and nested
\* objects have wrappers
C14_Case ==
    /\ storeOfRoot[CartRoot] # CartRoot
    /\ Has(proxyCache, 1) /\ Has(proxyCache, 2)

\* the wrapper instance the call r returned for raw object o
WrapperOf(r, o) == << r.val, r.st.proxyCache[o].nth >>

\* C15 (proxy is idempotent by identity): two calls of proxy on the same raw
\* object return the same wrapper instance, which is the wrapper the object
\* already had if it had one.
C15_ProxyIdempotent ==
    \A o \in ApiRaws :
        With(proxy(Engine, o), LAMBDA first :
        With(proxy(Later(first.st), o), LAMBDA second :
            /\ ~first.thrown /\ ~second.thrown
            /\ first.val = ProxyOf(o)
            /\ WrapperOf(second, o) = WrapperOf(first, o)
            /\ Has(proxyCache, o) => WrapperOf(first, o) = << ProxyOf(o), proxyCache[o].nth >>))

\* C15 is exercised: proxy was called again on the root and on item 0, each
\* call made a store, and each object has the first wrapper made for it.
C15_Witness ==
    /\ storeOfRoot[CartRoot] # CartRoot
    /\ Has(storeOfRoot, 2)
    /\ proxyCache[CartRoot].nth = 1 /\ proxyCache[2].nth = 1

\* the property key of the wrapper of o, read twice, under the scope tracker
ReadTwice(o, key, tracker) ==
    With(Get([Engine EXCEPT !.currentTracker = tracker], o, key), LAMBDA first :
    With(Get(first.st, o, key), LAMBDA second :
        /\ ~first.thrown /\ ~second.thrown
        /\ first.val = ProxyOf(heap[o].f[key].n)
        /\ WrapperOf(second, heap[o].f[key].n) = WrapperOf(first, heap[o].f[key].n)
        /\ Has(proxyCache, heap[o].f[key].n) =>
               WrapperOf(first, heap[o].f[key].n) =
                   << ProxyOf(heap[o].f[key].n), proxyCache[heap[o].f[key].n].nth >>))

\* C16 (wrapper identity): every raw object has at most one wrapper, and a
\* property that holds a raw object gives the same wrapper instance every time
\* it is read through a wrapper, with or without a scope, whatever reads,
\* writes and tracked scopes came before.
C16_WrapperIdentity ==
    /\ \A o \in DOMAIN proxyCache : proxyCache[o].nth = 1
    /\ \A o \in DOMAIN proxyCache : \A key \in DOMAIN heap[o].f, h \in Handles :
          heap[o].f[key].t = "ref" =>
              /\ ReadTwice(o, key, NoTracker)
              /\ ReadTwice(o, key, ComponentTracker(ComponentId(h)))

\* C16 is exercised: items and item 0 have wrappers, made by tracked reads;
\* item 0 sits in slots 0 and 1 after a write, its price was written, and the
\* handle read qty through slot 1.
C16_Witness ==
    /\ Has(proxyCache, 1) /\ Has(proxyCache, 2)
    /\ heap[1].f[IndexKey(1)] = Ref(2)
    /\ heap[2].f[<< "price" >>] = Whole(15)
    /\ DepsOf(<< "h1" >>) # {}
    /\ proxyCache[2].base = << << "items" >>, IndexKey(0) >>

\* one write through the wrappers: an assignment, a property definition or a
\* deletion
ApplyOp(st, w) ==
    IF w.op = "set" THEN WriteAt(st, CartRoot, w.path, w.val)
    ELSE IF w.op = "define" THEN DefineAt(st, CartRoot, w.path, w.val)
    ELSE DeleteAt(st, CartRoot, w.path)

\* the write at path goes to an array, and not to its length
Structural(path) ==
    /\ IsArray(heap, getValueAtPath(heap, CartRoot, SubSeq(path, 1, Len(path) - 1)).val.n)
    /\ path[Len(path)] # LENGTH

\* the invalidations an array write is to run: the written path and then,
\* unless length itself was written, the length of the array
ArrayPasses(path) ==
    IF path[Len(path)] = LENGTH THEN << keyOf(path) >>
    ELSE << keyOf(path), keyOf(Append(SubSeq(path, 1, Len(path) - 1), LENGTH)) >>

IsPrefixSeq(a, b) == Len(a) <= Len(b) /\ SubSeq(b, 1, Len(a)) = a

PlaceIn(order, h) == CHOOSE k \in DOMAIN order : order[k] = ComponentId(h)

\* the listeners the pass r called were called in the order of the sequence
CalledInOrderOf(r, order) ==
    \A i \in DOMAIN r.st.obs.pings, j \in DOMAIN r.st.obs.pings :
        i < j => PlaceIn(order, r.st.obs.pings[i]) < PlaceIn(order, r.st.obs.pings[j])

\* C19 (notification order) as stated: within one write pass the listeners of
\* the affected subscribers are called in the order in which the subscribers
\* were registered with subscribeComponent, whatever the order in which the
\* handles were first tracked.
C19_SubscriptionOrder ==
    \A w \in OrdWrites :
        CalledInOrderOf(notifyPathChange(Engine, CartRoot, w[1]), subscriberOrder[CartRoot])

\* C19 with the order the code follows: within one write pass the listeners of
\* the affected subscribers are called in the order in which their handles
\* were first tracked (the order of the keys of dependencyGraph), whatever
\* the order in which they were registered with subscribeComponent.
C19_TrackingOrder ==
    \A w \in OrdWrites :
        CalledInOrderOf(notifyPathChange(Engine, CartRoot, w[1]), dependencyOrder)

\* C19 is exercised: h1 was tracked first and subscribed second, both handles
\* read taxRate, and taxRate was written with both subscribed.
C19_Witness ==
    /\ dependencyOrder = << ComponentId(<< "h1" >>), ComponentId(<< "h2" >>) >>
    /\ subscriberOrder[CartRoot] = << ComponentId(<< "h2" >>), ComponentId(<< "h1" >>) >>
    /\ keyOf(TAXRATE) \in DepsOf(<< "h1" >>) \cap DepsOf(<< "h2" >>)
    /\ heap[CartRoot].f[<< "taxRate" >>] = Num(2)
    /\ Pings(notifyPathChange(Engine, CartRoot, TAXRATE), << "h1" >>) = 1
    /\ Pings(notifyPathChange(Engine, CartRoot, TAXRATE), << "h2" >>) = 1

\* raw key d is the changed key x, or an ancestor or a descendant of it: one
\* is the other cut at a segment boundary
SegmentRelated(d, x) ==
    \/ IsPrefixSeq(SplitDot(d), SplitDot(x))
    \/ IsPrefixSeq(SplitDot(x), SplitDot(d))

\* raw key d and the changed key x: one starts with the characters of the
\* other, yet they are not related by segments
CharPrefixOnly(d, x) ==
    /\ StartsWith(d, x) \/ StartsWith(x, d)
    /\ ~SegmentRelated(d, x)

\* C20 (notification condition): in the pass for changed path X a subscribed
\* handle with a recorded dependency set is called, once, if and only if one
\* of its raw dependencies is X, an ancestor of X or a descendant of X by
\* path segments, or one of its computed dependencies is in the affected set
\* of the pass; a raw dependency that only shares leading characters with X
\* does not count.
C20_PingCondition ==
    \A X \in { w[1] : w \in OrdWrites } \cup { ITEMS_LENGTH }, h \in OrdHandles :
        (Subscribed(h) /\ Has(dependencyGraph, ComponentId(h))) =>
            With(notifyPathChange(Engine, CartRoot, X), LAMBDA r :
                /\ Pings(r, h) <= 1
                /\ Pings(r, h) = 1 <=>
                      \/ \E d \in DepsOf(h) :
                            ~StartsWith(d, REF_COMPUTED_PREFIX) /\ SegmentRelated(d, keyOf(X))
                      \/ \E c \in r.st.obs.affected : c \in DepsOf(h))

\* C20 is exercised: h1 recorded items.1 alone and is subscribed, and items.10
\* was written (its key starts with the characters of items.1); h2 recorded
\* the computed total and is subscribed, and total is Dirty.
C20_Witness ==
    /\ Subscribed(<< "h1" >>) /\ DepsOf(<< "h1" >>) = { keyOf(ITEM1) }
    /\ CharPrefixOnly(keyOf(ITEM1), keyOf(ITEM10))
    /\ OwnProp(heap, 1, IndexKey(10)) = Null /\ heap[1].f[LENGTH] = Whole(11)
    /\ Subscribed(<< "h2" >>) /\ TOTAL \in DepsOf(<< "h2" >>) /\ IsDirty(TOTAL)

\* the leaves of the cart read through the wrappers
LeafPaths == { TAXRATE, ITEM0_PRICE, ITEM1, Append(ITEM1, << "price" >>) }

\* the scopes a handle can be invoked under
InvokingScopes == { ComponentTracker(ComponentId(h)) : h \in Handles } \cup { ComputedTracker(TOTAL) }

\* calling handle with scope tr active on state s returns what is stored at the
\* path in s and adds the key of the path to the set of tr, and to no other
\* set; with no scope active no set changes
InvokedLate(s, handle, path) ==
    /\ With(LiveAccess(s, handle), LAMBDA la :
           /\ ~la.thrown
           /\ la.val = getValueAtPath(s.heap, CartRoot, path).val
           /\ la.st.dependencyGraph = s.dependencyGraph)
    /\ \A tr \in InvokingScopes :
           With(LiveAccess([s EXCEPT !.currentTracker = tr], handle), LAMBDA la :
               /\ ~la.thrown
               /\ la.val = getValueAtPath(s.heap, CartRoot, path).val
               /\ la.st.dependencyGraph[tr.id] =
                      GetOr(s.dependencyGraph, tr.id, {}) \cup { keyOf(path) }
               /\ \A id \in DOMAIN la.st.dependencyGraph \ { tr.id } :
                      /\ Has(s.dependencyGraph, id)
                      /\ la.st.dependencyGraph[id] = s.dependencyGraph[id])

\* C21 (deferred live value): reading a primitive leaf through a wrapper while
\* no scope is active records no dependency and returns a handle; invoking the
\* handle later, after a write, returns the value stored at the path at that
\* time and adds the path to the dependency set of the scope active at the
\* invocation, or to none if no scope is active.
C21_DeferredValue ==
    \A path \in LeafPaths :
        (/\ Writable(CartRoot, path)
         /\ isPrimitive(getValueAtPath(heap, CartRoot, path).val)) =>
            With(ReadPath(Engine, ProxyOf(CartRoot), path), LAMBDA rd :
                /\ ~rd.thrown
                /\ rd.val = LiveRaw(CartRoot, path)
                /\ rd.st.dependencyGraph = dependencyGraph
                /\ InvokedLate(rd.st, rd.val, path)
                /\ \A w \in CartWrites :
                       Writable(CartRoot, w[1]) =>
                           InvokedLate(Later(WriteAt(rd.st, CartRoot, w[1], w[2]).st),
                                       rd.val, path))

\* C21 is exercised: items[0].price holds 15, written after the initial 10; no
\* component has recorded anything; the untracked read gives a handle, and the
\* handle gives 15 now and 10 after the write that puts 10 back.
C21_Witness ==
    /\ heap[2].f[<< "price" >>] = Whole(15)
    /\ dependencyOrder = << >>
    /\ ReadPath(Engine, ProxyOf(CartRoot), ITEM0_PRICE).val = LiveRaw(CartRoot, ITEM0_PRICE)
    /\ LiveAccess(Engine, LiveRaw(CartRoot, ITEM0_PRICE)).val = Whole(15)
    /\ LiveAccess(WriteAt(Engine, CartRoot, ITEM0_PRICE, Whole(10)).st,
                  LiveRaw(CartRoot, ITEM0_PRICE)).val = Whole(10)

\* the views bound to a component
BoundViews == { view \in views : view.p # << >> }

\* the dependency set of the component of view after the read r
BoundDeps(r, view) == GetOr(r.st.dependencyGraph, ComponentId(view.p), {})

\* the length path and every index path of the array at path
ArrayPaths(path) ==
    { keyOf(Append(path, LENGTH)) } \cup
    { keyOf(Append(path, IndexKey(i))) : i \in 0..(LengthAt(CartRoot, path) - 1) }

\* state.items.push({...}) after the read r, the component of view subscribed
PushAfter(r, view) ==
    PushAt(subscribeComponent(Later(r.st), CartRoot, view.p, Listener("count", Select(<< >>))),
           CartRoot, ITEMS, NewItem(LengthAt(CartRoot, ITEMS)))

\* C22, leaves and computeds: a read of taxRate on a bound view, with no scope
\* active, adds the path taxRate to the set of the component the view is bound
\* to, a read of total adds the key of the computed, and the scope that was
\* active before the read (none) is active after it.
C22_LeafAndComputed ==
    \A view \in BoundViews :
        /\ With(ViewGet(Engine, view, << "taxRate" >>), LAMBDA r :
               /\ ~r.thrown
               /\ keyOf(TAXRATE) \in BoundDeps(r, view)
               /\ r.val = heap[CartRoot].f[<< "taxRate" >>]
               /\ r.st.currentTracker = NoTracker)
        /\ With(ViewGet(Engine, view, << "total" >>), LAMBDA r :
               /\ TOTAL \in BoundDeps(r, view)
               /\ r.st.currentTracker = NoTracker)

\* C22 (bound view attribution): a view made by snapshot(state) inside
\* withComponentTracking(h, ...) attributes every later property read on it to
\* h, also with no scope active: a leaf read adds the leaf path, a computed
\* read adds the computed key, and a read of the array-valued property items
\* adds items.length and every index path of items to h's set, so that a
\* later push to items calls h's listener.
C22_BoundView ==
    /\ C22_LeafAndComputed
    /\ \A view \in BoundViews :
           With(ViewGet(Engine, view, << "items" >>), LAMBDA r :
               /\ ~r.thrown
               /\ ArrayPaths(ITEMS) \subseteq BoundDeps(r, view)
               /\ Pings(PushAfter(r, view), view.p) >= 1)

\* the case of C22: a component holds a view bound to it, and its set, made
\* anew by a later scope of the same component, names no path of the array
C22_Case ==
    /\ View(CartRoot, << "h1" >>) \in views
    /\ DepsOf(<< "h1" >>) \cap ArrayPaths(ITEMS) = {}
    /\ LengthAt(CartRoot, ITEMS) = 2

\* what a consumer finds when it looks through value v, all the way down, while
\* the raw data is h: a copy holds its own fields, a reference or a wrapper
\* shows the fields the object has in h
RECURSIVE Seen(_, _)
Seen(h, v) ==
    IF v.t = "plain"
    THEN [t |-> "seen", n |-> v.n, p |-> [k \in DOMAIN v.p |-> Seen(h, v.p[k])]]
    ELSE IF v.t \in {"ref", "proxy"}
    THEN [t |-> "seen", n |-> IF h[v.n].arr THEN 1 ELSE 0,
          p |-> [k \in DOMAIN h[v.n].f |-> Seen(h, h[v.n].f[k])]]
    ELSE v

\* snapshot(state.items), with scope tr active
SnapshotItems(tr) ==
    Then(ReadPath([Engine EXCEPT !.currentTracker = tr], ProxyOf(CartRoot), ITEMS),
         LAMBDA s, items : snapshot(s, items))

\* the scopes a consumer takes a snapshot under: none, or a component's
SnapshotScopes == { NoTracker } \cup { ComponentTracker(ComponentId(h)) : h \in Handles }

\* C23 (detached array projection): the array snapshot() returns for the
\* managed array items is a plain copy of the elements as they are; no later
\* write to the managed state (to an element's field, to an index, to length,
\* by assignment, definition or deletion) changes the array returned or the
\* objects inside it.
C23_DetachedArray ==
    \A tr \in SnapshotScopes :
        With(SnapshotItems(tr), LAMBDA sn :
            /\ ~sn.thrown
            /\ sn.val.t = "plain" /\ sn.val.n = 1
            /\ sn.val.p[LENGTH] = Whole(LengthAt(CartRoot, ITEMS))
            /\ \A i \in 0..(LengthAt(CartRoot, ITEMS) - 1) :
                   Seen(heap, sn.val.p[IndexKey(i)]) = Seen(heap, OwnProp(heap, 1, IndexKey(i)))
            /\ sn.st.heap = heap
            /\ \A w \in ArrOps :
                   Writable(CartRoot, w.path) =>
                       Seen(ApplyOp(Later(sn.st), w).st.heap, sn.val) = Seen(heap, sn.val))

\* C23 is exercised: items[0].price was redefined (15) and the array cut to one
\* element; the snapshot taken now holds a copy of that element, and the
\* assignment items[1] = null changes what the managed array shows and not
\* what the snapshot shows.
C23_Witness ==
    /\ heap[2].f[<< "price" >>] = Whole(15)
    /\ LengthAt(CartRoot, ITEMS) = 1
    /\ With(SnapshotItems(NoTracker), LAMBDA sn :
           /\ sn.val.p[IndexKey(0)] = Plain(FALSE, heap[2].f)
           /\ With(WriteAt(Later(sn.st), CartRoot, ITEM1, Null).st.heap, LAMBDA h :
                  /\ Seen(h, Ref(1)) # Seen(heap, Ref(1))
                  /\ Seen(h, sn.val) = Seen(heap, sn.val)))

\* C24 (read-only view): an assignment to a property of a view returned by
\* snapshot() leaves the managed state unchanged, marks no computed Dirty and
\* invokes no subscriber callback (no invalidation pass runs at all), and a
\* later read of that property through the view returns what it returned
\* before: the managed state's value.
C24_ReadOnlyView ==
    \A view \in views, prop \in ViewProps, newVal \in { Num(2), Null } :
        With(ViewSet(Engine, view, prop, newVal), LAMBDA r :
            /\ r.st.heap = heap
            /\ \A c \in DOMAIN computedRegistry :
                   r.st.computedRegistry[c].dirty = computedRegistry[c].dirty
            /\ r.st.obs.passes = << >> /\ r.st.obs.pings = << >>
            /\ r.st.obs.affected = {} /\ r.st.obs.runs = EmptyMap
            /\ r.st.dependencyGraph = dependencyGraph
            /\ With(ViewGet(Later(r.st), view, prop), LAMBDA after :
                   /\ SameOutcome(after, ViewGet(Engine, view, prop))
                   /\ prop = << "taxRate" >> =>
                          ~after.thrown /\ after.val = heap[CartRoot].f[<< "taxRate" >>]))

\* C24 is exercised: a component holds a view of the cart, its listener is
\* subscribed and its set names total and taxRate, total is Clean (55): an
\* assignment of 0.2 to the view's taxRate, were it stored, would call the
\* listener and mark total.
C24_Witness ==
    /\ View(CartRoot, << "h1" >>) \in views
    /\ Subscribed(<< "h1" >>)
    /\ { TOTAL, keyOf(TAXRATE) } \subseteq DepsOf(<< "h1" >>)
    /\ IsClean(TOTAL) /\ computedRegistry[TOTAL].last = Whole(55)
    /\ ViewSet(Engine, View(CartRoot, << "h1" >>), << "taxRate" >>, Num(2)).thrown
    /\ Pings(WriteAt(Engine, CartRoot, TAXRATE, Num(2)), << "h1" >>) >= 1

\* the raw object inside the ref the slot config holds
Inside == heap[CartRoot].f[<< "config" >>].n

\* C25, reads: a tracked read of the slot, under a component scope or under a
\* computed scope, records the raw path of the slot and returns the object
\* inside the ref itself: no wrapper is returned and none is made.
C25_ReadUnwraps ==
    \A tr \in InvokingScopes :
        With(Get([Engine EXCEPT !.currentTracker = tr], CartRoot, << "config" >>), LAMBDA g :
            /\ ~g.thrown
            /\ g.val = Ref(Inside)
            /\ keyOf(CONFIG) \in g.st.dependencyGraph[tr.id]
            /\ g.st.proxyCache = proxyCache)

\* C25, slot writes: assigning the slot through the wrapper runs the
\* invalidation pass of the slot's path, which calls the listener of a
\* subscribed component that read the slot.
C25_SlotWriteInvalidates ==
    \A w \in RefWrites :
        w[1] = CONFIG =>
            With(WriteAt(Engine, CartRoot, w[1], w[2]), LAMBDA wr :
                /\ ~wr.thrown
                /\ wr.st.heap[CartRoot].f[<< "config" >>] = w[2]
                /\ wr.st.obs.passes = << keyOf(CONFIG) >>
                /\ \A h \in Handles :
                       (Subscribed(h) /\ keyOf(CONFIG) \in DepsOf(h)) => Pings(wr, h) >= 1)

\* C25, inner mutation: assigning a field of the object inside the ref stores
\* the value and does nothing else: no pass, no computed marked, no listener
\* called.
C25_InnerMutationUntracked ==
    \A m \in RefMutations :
        With(WriteAt(Engine, CartRoot, Append(CONFIG, m[1]), m[2]), LAMBDA r :
            /\ ~r.thrown
            /\ r.st.heap[Inside].f[m[1]] = m[2]
            /\ r.st.obs.passes = << >> /\ r.st.obs.pings = << >>
            /\ r.st.obs.affected = {}
            /\ r.st.computedRegistry = computedRegistry)

\* C25 (opaque ref): for a slot holding ref(v), a tracked read of the slot
\* records the slot's raw path as a dependency and returns v itself without
\* wrapping it; assigning the slot through the wrapper runs the invalidation
\* pass for the slot's path; mutating v's own fields marks no computed Dirty
\* and invokes no subscriber.
C25_OpaqueRef ==
    isRef(heap[CartRoot].f[<< "config" >>]) =>
        C25_ReadUnwraps /\ C25_SlotWriteInvalidates /\ C25_InnerMutationUntracked

\* C25 is exercised: the slot was assigned the second ref, the object inside
\* it was mutated (size 2), a subscribed component read the slot after total
\* was evaluated, and total is Clean.
C25_Witness ==
    /\ heap[CartRoot].f[<< "config" >>] = ref(5)
    /\ heap[5].f[<< "size" >>] = Whole(2)
    /\ Subscribed(<< "h1" >>)
    /\ keyOf(CONFIG) \in DepsOf(<< "h1" >>)
    /\ IsClean(TOTAL)

\* the listener of h is called by none of the writes that follow state s: one
\* write, two writes in a row, a deletion, a write after h was tracked again
NeverCalledFrom(s, h) ==
    /\ \A w \in SubWrites :
           With(WriteAt(s, CartRoot, w[1], w[2]), LAMBDA wr :
               /\ Pings(wr, h) = 0
               /\ \A w2 \in SubWrites :
                      Pings(WriteAt(Later(wr.st), CartRoot, w2[1], w2[2]), h) = 0)
    /\ Pings(DeleteAt(s, CartRoot, ITEM0_ID), h) = 0
    /\ \A body \in SubBodies, w \in SubWrites :
           With(withComponentTracking(s, h, body, CartRoot), LAMBDA t :
               /\ Has(t.st.dependencyGraph, ComponentId(h))
               /\ Pings(WriteAt(Later(t.st), CartRoot, w[1], w[2]), h) = 0)

\* one pass calls the listener of h if the notification condition holds for the
\* set of h, the changed key and the computeds the pass marked
CalledWhenDue(h, path) ==
    With(notifyPathChange(Engine, CartRoot, path), LAMBDA r :
        shouldPing(DepsOf(h), keyOf(path), r.st.obs.affected) => Pings(r, h) >= 1)

\* C26 (unsubscribe): while h is subscribed, every write pass whose
\* notification condition holds for h calls its listener; once the function
\* subscribeComponent(h, cb) returned has been called, h has no listener and no
\* later write pass calls one for h.
C26_Unsubscribe ==
    \A h \in Handles :
        Subscribed(h) =>
            /\ \A w \in SubWrites : CalledWhenDue(h, w[1])
            /\ CalledWhenDue(h, ITEM0_ID)
            /\ With(unsubscribe(Engine, CartRoot, h), LAMBDA u :
                   /\ ~Has(u.componentSubscribers[CartRoot], ComponentId(h))
                   /\ NeverCalledFrom(u, h))

\* C26 is exercised: a listener is subscribed for a component that read total,
\* taxRate has been written; one more write to taxRate calls the listener,
\* and after unsubscribe the same write calls nobody.
C26_Witness ==
    /\ Subscribed(<< "h1" >>)
    /\ TOTAL \in DepsOf(<< "h1" >>)
    /\ heap[CartRoot].f[<< "taxRate" >>] = Num(2)
    /\ Pings(WriteAt(Engine, CartRoot, TAXRATE, Num(2)), << "h1" >>) = 1
    /\ WriteAt(unsubscribe(Engine, CartRoot, << "h1" >>), CartRoot, TAXRATE, Num(2)).st.obs.pings
           = << >>

\* the registered computeds the raw index lists under a prefix of path, or
\* under path itself
RawHits(st, path) ==
    { c \in DOMAIN st.computedRegistry :
        \E i \in 1..Len(path) :
            c \in GetOr(st.reverseRawToComp, keyOf(SubSeq(path, 1, i)), {}) }

\* the least set that holds S and, with a computed, every registered parent
\* reverseCompToComp lists for it
RECURSIVE ParentClosure(_, _)
ParentClosure(st, S) ==
    With(S \cup { p \in UNION { GetOr(st.reverseCompToComp, c, {}) : c \in S } :
                    Has(st.computedRegistry, p) },
         LAMBDA T : IF T = S THEN S ELSE ParentClosure(st, T))

\* the pass for path on state st marks exactly the closure of the raw hits,
\* leaves every other entry as it is, and takes each computed off the queue
\* at most once
MarksClosure(st, path) ==
    With(notifyPathChange(st, CartRoot, path), LAMBDA r :
    With(VisitOrder(st, SetToSeq(RawHits(st, path)), RawHits(st, path)), LAMBDA order :
        /\ r.st.obs.affected = ParentClosure(st, RawHits(st, path))
        /\ DOMAIN r.st.computedRegistry = DOMAIN st.computedRegistry
        /\ \A c \in DOMAIN st.computedRegistry :
               r.st.computedRegistry[c] =
                   IF c \in r.st.obs.affected
                   THEN [st.computedRegistry[c] EXCEPT !.dirty = TRUE]
                   ELSE st.computedRegistry[c]
        /\ Range(order) = r.st.obs.affected
        /\ \A i \in DOMAIN order, j \in DOMAIN order : order[i] = order[j] => i = j))

\* the keys a pass is run for
PassPaths == { w[1] : w \in CartWrites } \cup { ITEMS, Append(ITEMS, LENGTH) }

\* contents of the two reverse indices other getters would leave: a raw path
\* that one computed read, or that two did, and edges in a chain, in a diamond,
\* from two children to one parent
RawShapes ==
    { (keyOf(ITEMS) :> { SUBTOTAL }), (keyOf(TAXRATE) :> { TAX }),
      (keyOf(ITEMS) :> { SUBTOTAL, TAX }) }

EdgeShapes ==
    { (SUBTOTAL :> { TAX }) @@ (TAX :> { TOTAL }),
      (SUBTOTAL :> { TAX, TOTAL }) @@ (TAX :> { TOTAL }),
      (SUBTOTAL :> { TOTAL }) @@ (TAX :> { TOTAL }) }

\* C27 (dirty marking in a write pass for changed path X): the computeds whose
\* dirty flag the pass sets are exactly the closure, under child-to-parent
\* edges, of the union of reverseRawToComp[p] over the prefixes p of X; every
\* other entry is unchanged; the propagation visits each computed at most
\* once.  Checked on the indices the cart's getters leave and, for the three
\* registered computeds, on indices of other shapes.
C27_DirtyMarking ==
    \A path \in PassPaths :
        /\ MarksClosure(Engine, path)
        /\ { SUBTOTAL, TAX, TOTAL } \subseteq DOMAIN computedRegistry =>
               \A raw \in RawShapes, edges \in EdgeShapes :
                   MarksClosure([Engine EXCEPT !.reverseRawToComp = raw,
                                               !.reverseCompToComp = edges], path)

\* C27 is exercised: the three computeds are Clean; tax lists subtotal as a
\* child and total does not, and a pass for taxRate marks tax and total and
\* leaves subtotal.
C27_Witness ==
    /\ IsClean(SUBTOTAL) /\ IsClean(TAX) /\ IsClean(TOTAL)
    /\ TAX \in GetOr(reverseCompToComp, SUBTOTAL, {})
    /\ With(notifyPathChange(Engine, CartRoot, TAXRATE), LAMBDA r :
           /\ r.st.obs.affected = { TAX, TOTAL }
           /\ ~r.st.computedRegistry[SUBTOTAL].dirty)

\* the keys that are raw, or a prefix of raw ending where a segment ends
PrefixKeys(raw) ==
    { SubSeq(raw, 1, i) : i \in { j \in 1..Len(raw) : j = Len(raw) \/ raw[j + 1] = Dot } }

\* in state st the reverse raw index lists computed c under exactly the
\* prefixes of the raw keys recorded for c, and holds nothing else
InSync(st) ==
    /\ \A p \in DOMAIN st.reverseRawToComp :
           /\ st.reverseRawToComp[p] # {}
           /\ \A c \in st.reverseRawToComp[p] :
                  /\ Has(st.computedRegistry, c)
                  /\ \E raw \in GetOr(st.computedRawDeps, c, {}) : p \in PrefixKeys(raw)
    /\ \A c \in DOMAIN st.computedRawDeps :
           \A raw \in st.computedRawDeps[c] :
               \A p \in PrefixKeys(raw) : c \in GetOr(st.reverseRawToComp, p, {})
    /\ \A c \in DOMAIN st.computedRawDeps :
           ~st.computedRegistry[c].dirty =>
               st.computedRawDeps[c] = st.dependencyGraph[ComputedId(c)]

\* after the write w and a read of c that evaluates c, the index is in sync
\* with what that evaluation read, and c is listed under no prefix that only
\* the evaluation before read
RelinkedAfter(w, c) ==
    With(ApplyOp(Engine, w), LAMBDA wr :
        /\ InSync(wr.st)
        /\ With(ReadOf(Later(wr.st), c), LAMBDA rd :
               /\ InSync(rd.st)
               /\ ~rd.st.computedRegistry[c].dirty =>
                      \A raw \in computedRawDeps[c] :
                          \A p \in PrefixKeys(raw) :
                              (\A now \in rd.st.computedRawDeps[c] : ~(p \in PrefixKeys(now))) =>
                                  ~(c \in GetOr(rd.st.reverseRawToComp, p, {}))))

\* C28 (raw reverse index in sync): in every state between operations,
\* computed C is a member of reverseRawToComp[p] if and only if p is a prefix
\* (or the whole) of a raw key in the dependency set of C's most recent
\* successful evaluation; after C is evaluated again with other reads, no
\* entry remains for a prefix that only the earlier run read.
C28_RawIndexInSync ==
    /\ InSync(Engine)
    /\ \A w \in ArrOps, c \in DOMAIN computedRawDeps :
           Writable(CartRoot, w.path) => RelinkedAfter(w, c)

\* C28 is exercised: the array was cut to one element and subtotal evaluated
\* since (10): it is listed under items.0.price, and the index has no entry
\* for items.1 or a path below it.
C28_Witness ==
    /\ LengthAt(CartRoot, ITEMS) = 1
    /\ IsClean(SUBTOTAL) /\ computedRegistry[SUBTOTAL].last = Whole(10)
    /\ SUBTOTAL \in GetOr(reverseRawToComp, keyOf(ITEM0_PRICE), {})
    /\ \A p \in DOMAIN reverseRawToComp : ~(keyOf(ITEM1) \in PrefixKeys(p))

\* the computeds the function of c reads when it runs to its end (makeOurs:
\* subtotal reads none, tax reads subtotal, total reads subtotal and tax)
ChildrenRead(c) ==
    IF c = TAX THEN { SUBTOTAL }
    ELSE IF c = TOTAL THEN { SUBTOTAL, TAX }
    ELSE {}

\* in state st the edges recorded for parent are the computeds its function
\* read, and each of them lists parent
EdgesComplete(st, parent) ==
    /\ Has(st.computedChildDeps, parent)
    /\ st.computedChildDeps[parent] = ChildrenRead(parent)
    /\ \A child \in ChildrenRead(parent) : parent \in GetOr(st.reverseCompToComp, child, {})

\* C29, the part about the two maps: reverseCompToComp is computedChildDeps
\* read backwards, and an edge recorded for a parent is a computed its
\* function reads.
C29_EdgesMirrored ==
    /\ \A parent \in DOMAIN computedChildDeps :
           /\ computedChildDeps[parent] \subseteq ChildrenRead(parent)
           /\ \A child \in computedChildDeps[parent] :
                  parent \in GetOr(reverseCompToComp, child, {})
    /\ \A child \in DOMAIN reverseCompToComp :
           /\ reverseCompToComp[child] # {}
           /\ \A parent \in reverseCompToComp[child] :
                  child \in GetOr(computedChildDeps, parent, {})

\* C29 (computed-to-computed edges are complete): after every successful
\* evaluation of computed P, computedChildDeps[P] is exactly the set of
\* computeds P's function read during that evaluation and reverseCompToComp
\* lists P as a parent of each, whether a child was Clean or Dirty when P
\* read it and however many children P read.
C29_EdgesComplete ==
    /\ C29_EdgesMirrored
    /\ \A c \in DOMAIN computedRegistry : IsClean(c) => EdgesComplete(Engine, c)
    /\ \A name \in CartGetters :
           With(UntrackedRead(Engine, name), LAMBDA rd :
               (~rd.thrown /\ RunsOf(rd, computedKeyForPath(name)) = 1) =>
                   EdgesComplete(rd.st, computedKeyForPath(name)))

\* the case of C29: total was evaluated from scratch, reading subtotal and tax
\* while they were Dirty (55 = 50 + 5), and no edge is recorded for it
C29_Case ==
    /\ IsClean(TOTAL) /\ computedRegistry[TOTAL].last = Whole(55)
    /\ computedChildDeps[TOTAL] = {}
    /\ ~(TOTAL \in GetOr(reverseCompToComp, SUBTOTAL, {}))

\* in state st every raw dependency recorded for child is recorded for parent,
\* and the raw index alone leads from each of them to parent
Flattened(st, parent, child) ==
    /\ Has(st.computedRawDeps, child)
    /\ Has(st.computedRawDeps, parent)
    /\ st.computedRawDeps[child] \subseteq st.computedRawDeps[parent]
    /\ \A raw \in st.computedRawDeps[child] :
           /\ parent \in GetOr(st.reverseRawToComp, raw, {})
           /\ parent \in DirectlyAffected(st, raw)

\* C30 (flattening): when a read evaluates computed P to its end, the raw
\* dependencies recorded for P contain those recorded for every computed C that
\* P read (a child is not evaluated again after P read it, so its set at the
\* end is its set at the time of the read), and the raw index leads from each
\* raw path of C to P, whether or not the edge P -> C was recorded.
C30_Flattening ==
    \A name \in CartGetters :
        With(UntrackedRead(Engine, name), LAMBDA rd :
            (~rd.thrown /\ RunsOf(rd, computedKeyForPath(name)) = 1) =>
                \A child \in ChildrenRead(computedKeyForPath(name)) :
                    Flattened(rd.st, computedKeyForPath(name), child))

\* C30 is exercised: total was evaluated, no edge from total to tax was
\* recorded, and taxRate, which only the function of tax reads, is a raw
\* dependency of total and leads to total in the raw index.
C30_Witness ==
    /\ IsClean(TOTAL) /\ IsClean(TAX)
    /\ ~(TAX \in computedChildDeps[TOTAL])
    /\ keyOf(TAXRATE) \in computedRawDeps[TAX]
    /\ keyOf(TAXRATE) \in computedRawDeps[TOTAL]
    /\ TOTAL \in GetOr(reverseRawToComp, keyOf(TAXRATE), {})

\* operation r, started in the present state, ran no write pass and left
\* every Clean entry Clean
StaysClean(r) ==
    /\ r.st.obs.passes = << >>
    /\ r.st.obs.affected = {}
    /\ \A c \in DOMAIN computedRegistry : IsClean(c) => ~r.st.computedRegistry[c].dirty

\* every entry that operation r made Dirty was marked by one of its write
\* passes, and every entry it left Clean that was not Clean before had its
\* function run by a read
FlagMoves(r) ==
    /\ \A c \in DOMAIN r.st.computedRegistry :
           (r.st.computedRegistry[c].dirty /\ IsClean(c)) => c \in r.st.obs.affected
    /\ \A c \in DOMAIN r.st.computedRegistry :
           (~r.st.computedRegistry[c].dirty /\ ~IsClean(c)) =>
               (RunsOf(r, c) >= 1 /\ c \in r.st.obs.reads)
    /\ (r.st.obs.affected # {} => r.st.obs.passes # << >>)

\* C31 (computed state machine): ensureComputed creates an entry Dirty with
\* no value; a read, a tracked scope with its snapshot, a subscription and an
\* unsubscription run no write pass and leave every Clean entry Clean; in
\* every operation, writes with the listeners they call included, an entry
\* goes from Clean to Dirty only if a write pass of the operation marked it,
\* and from Dirty or absent to Clean only if a read ran its function.
C31_StateMachine ==
    /\ \A name \in CartGetters :
           ~Has(computedRegistry, computedKeyForPath(name)) =>
               With(ensureComputed(Engine, name, CartRoot, name), LAMBDA s :
                   /\ s.computedRegistry[computedKeyForPath(name)].dirty
                   /\ s.computedRegistry[computedKeyForPath(name)].last = Undefined)
    /\ \A name \in CartGetters :
           With(UntrackedRead(Engine, name), LAMBDA r : StaysClean(r) /\ FlagMoves(r))
    /\ \A h \in Handles, body \in SubBodies :
           With(withComponentTracking(Engine, h, body, CartRoot), LAMBDA r :
               StaysClean(r) /\ FlagMoves(r))
    /\ With(snapshot(Engine, ProxyOf(CartRoot)), LAMBDA r : StaysClean(r))
    /\ \A h \in Handles, cb \in SubListeners :
           /\ StaysClean(Ret(subscribeComponent(Engine, CartRoot, h, cb), Undefined))
           /\ StaysClean(Ret(unsubscribe(Engine, CartRoot, h), Undefined))
    /\ \A w \in SubWrites :
           With(WriteAt(Engine, CartRoot, w[1], w[2]), LAMBDA r : FlagMoves(r))
    /\ With(DeleteAt(Engine, CartRoot, ITEM0_ID), LAMBDA r : FlagMoves(r))

\* C31 is exercised: with a listener subscribed, a write to taxRate marked tax
\* and total Dirty and the listener read total again: the three entries are
\* Clean and tax and total hold the values of the new rate.
C31_Witness ==
    /\ Subscribed(<< "h1" >>)
    /\ heap[CartRoot].f[<< "taxRate" >>] = Num(2)
    /\ IsClean(SUBTOTAL)
    /\ IsClean(TOTAL) /\ computedRegistry[TOTAL].last = Whole(60)
    /\ IsClean(TAX) /\ computedRegistry[TAX].last = Whole(10)

\* raw leaves the function of c reads itself on the cart, whatever the items
\* hold (makeOurs: subtotal reads items.length and the fields of item 0 first,
\* tax reads taxRate, total reads two computeds and no leaf)
OwnLeaves(c) ==
    IF c = SUBTOTAL THEN { keyOf(ITEMS_LENGTH), keyOf(ITEM0_PRICE) }
    ELSE IF c = TAX THEN { keyOf(TAXRATE) }
    ELSE {}

\* every evaluation that operation r ran recorded the leaves its function
\* read in its own set, and the set of the scope it was called under, a
\* component's or another computed's, was the same at its return as at its
\* call
InnermostOnly(r) ==
    \A n \in r.st.obs.nested :
        /\ n.before = n.after
        /\ (~n.threw => OwnLeaves(n.inner) \subseteq n.own)
        /\ (n.outer # NoTracker /\ ~n.threw) =>
               \A leaf \in OwnLeaves(n.inner) \ n.before : ~(leaf \in n.after)

\* the evaluations of operation r that were called under a scope of the kind
NestedUnder(r, kind) == { n \in r.st.obs.nested : n.outer.kind = kind }

\* C32 (innermost-scope attribution): in every read, tracked or not, each
\* evaluation records the leaves its function reads in the computed's own
\* dependency set, and at the moment a nested evaluation returns the
\* dependency set of the enclosing scope is what it was when the evaluation
\* was called.
C32_Innermost ==
    /\ \A name \in CartGetters : InnermostOnly(UntrackedRead(Engine, name))
    /\ \A h \in Handles, body \in CartBodies :
           InnermostOnly(withComponentTracking(Engine, h, body, CartRoot))

\* C32 is exercised: a component read total in a scope, then taxRate was
\* written; subtotal is Clean, tax and total are Dirty.  The component's next
\* scope runs total under the component and tax under total, and the
\* component's new set holds taxRate, which only the function of tax read.
C32_Witness ==
    /\ TOTAL \in DepsOf(<< "h1" >>)
    /\ IsClean(SUBTOTAL) /\ IsDirty(TAX) /\ IsDirty(TOTAL)
    /\ ~(keyOf(TAXRATE) \in GetOr(dependencyGraph, ComputedId(SUBTOTAL), {}))
    /\ With(withComponentTracking(Engine, << "h1" >>, Select(<< << "total" >> >>), CartRoot),
            LAMBDA r :
                /\ ~r.thrown
                /\ { n.inner : n \in NestedUnder(r, "component") } = { TOTAL }
                /\ { n.inner : n \in NestedUnder(r, "computed") } = { TAX }
                /\ keyOf(TAXRATE) \in r.st.dependencyGraph[ComponentId(<< "h1" >>)])

\* the value write w leaves at its path
Written(w) == IF w.op = "delete" THEN Undefined ELSE w.val

\* write w, ended as r, ran at least one pass; each pass for the written path
\* started with the data already holding the new value; every value a
\* listener selected during the passes (total) is the value the getter gives
\* on the data after the write, and so is the memoized value of every computed
\* that was evaluated during the write and is Clean at its end
PostWriteOnly(w, r) ==
    /\ Len(r.st.obs.data) >= 1
    /\ Len(r.st.obs.data) = Len(r.st.obs.passes)
    /\ r.st.obs.data[1].key = keyOf(w.path)
    /\ \A i \in DOMAIN r.st.obs.data :
           /\ r.st.obs.data[i].key = r.st.obs.passes[i]
           /\ r.st.obs.data[i].key = keyOf(w.path) => r.st.obs.data[i].val = Written(w)
    /\ \A i \in DOMAIN r.st.obs.results :
           r.st.obs.results[i] = RawGetter(r.st.heap, CartRoot, << "total" >>).val
    /\ \A name \in CartGetters :
           (/\ RunsOf(r, computedKeyForPath(name)) >= 1
            /\ ~r.st.computedRegistry[computedKeyForPath(name)].dirty) =>
               r.st.computedRegistry[computedKeyForPath(name)].last
                   = RawGetter(r.st.heap, CartRoot, name).val

\* C33 (mutation before invalidation): for every assignment, property
\* definition and deletion through a wrapper, the data holds the new value
\* when each invalidation pass of the write starts, and the listeners the
\* passes call, with the computeds evaluated from inside them, see the data as
\* it is after the write.
C33_MutationFirst ==
    \A w \in ArrOps :
        Writable(CartRoot, w.path) =>
            With(ApplyOp(Engine, w), LAMBDA r : PostWriteOnly(w, r))

\* C33 is exercised: a listener that reads total again is subscribed for a
\* component that read total at the rate 0.1; the write taxRate = 0.2 calls
\* it once, tax and total are evaluated inside the call, and the value the
\* listener selects is 60.
C33_Witness ==
    /\ Subscribed(<< "h1" >>)
    /\ componentSubscribers[CartRoot][ComponentId(<< "h1" >>)].kind = "react"
    /\ heap[CartRoot].f[<< "taxRate" >>] = Num(1)
    /\ IsClean(TOTAL) /\ computedRegistry[TOTAL].last = Whole(55)
    /\ With(WriteAt(Engine, CartRoot, TAXRATE, Num(2)), LAMBDA r :
            /\ r.st.obs.pings = << << "h1" >> >>
            /\ RunsOf(r, TAX) = 1 /\ RunsOf(r, TOTAL) = 1
            /\ r.st.obs.results = << Whole(60) >>
            /\ r.st.obs.data = << [key |-> keyOf(TAXRATE), val |-> Num(2)] >>)

\* the getters the body of a component reads itself
BodyReads(body) ==
    IF body.path = << >> THEN { SUBTOTAL, TAX, TOTAL }
    ELSE { computedKeyForPath(keyOf(body.path)) }

\* C34 (scope restore in the eager variant): every scope a component's
\* tracked body enters, its own and those of the computeds it evaluates,
\* restores on exit the scope that was active on entry, and every getter the
\* body reads is in the component's dependency set when the body has ended,
\* also when the read was the first of that getter.
C34_EagerScopeRestore ==
    \A h \in Handles, body \in EagerBodies :
        With(EagerWithComponentTracking(Engine, h, body, CartRoot), LAMBDA r :
            ~r.thrown =>
                /\ \A sc \in r.st.obs.scopes : sc.restored = sc.saved
                /\ BodyReads(body) \subseteq r.st.dependencyGraph[ComponentId(h)])

\* the divergence of C34 is reached: the component selected total before
\* any getter had been read and its set is empty; total was evaluated with no
\* scope active after its first operand and has an empty set too, so the
\* write taxRate = 0.2 evaluated tax again and left total at 55.
C34_Case ==
    /\ Has(dependencyGraph, ComponentId(<< "h1" >>))
    /\ DepsOf(<< "h1" >>) = {}
    /\ Has(computedRegistry, TOTAL) /\ Has(computedRegistry, TAX)
    /\ dependencyGraph[ComputedId(TOTAL)] = {}
    /\ heap[CartRoot].f[<< "taxRate" >>] = Num(2)
    /\ computedRegistry[TAX].last = Whole(10)
    /\ computedRegistry[TOTAL].last = Whole(55)

\* getStoreFor(state).subscribeComponent(h, cb) with a counting listener, and
\* then state.<path> = v through the root wrapper: the write, as it ended
\* (getStoreFor throws for no wrapper, C14)
SubscribedThenWritten(h, w) ==
    With(getStoreFor(Engine, ProxyOf(CartRoot)), LAMBDA g :
    With(subscribeComponent(g.st, g.val, h, Listener("count", Select(<< >>))),
         LAMBDA s : WriteAt(s, CartRoot, w[1], w[2])))

\* C35 (store consistency after a repeated proxy() call): the store that
\* getStoreFor resolves for the root wrapper is the store whose passes the
\* wrapper's write traps run, so a listener subscribed through it for a
\* component whose set holds the written path is called by the write, also
\* after proxy() was called again on the root.
C35_StoreAfterReproxy ==
    \A h \in Handles :
        /\ getStoreFor(Engine, ProxyOf(CartRoot)).val = proxyCache[CartRoot].store
        /\ keyOf(ITEM0_PRICE) \in DepsOf(h) =>
               Pings(SubscribedThenWritten(h, << ITEM0_PRICE, Whole(15) >>), h) >= 1

\* the divergence of C35 is reached: proxy() was called a second time on the
\* root, a component read items.0.price; the listener subscribed through
\* getStoreFor(state) is not called by state.items[0].price = 15, which runs
\* its pass and calls nobody.
C35_Case ==
    /\ storeOfRoot[CartRoot] # proxyCache[CartRoot].store
    /\ DepsOf(<< "h1" >>) = { keyOf(ITEM0_PRICE) }
    /\ With(SubscribedThenWritten(<< "h1" >>, << ITEM0_PRICE, Whole(15) >>), LAMBDA r :
            /\ ~r.thrown
            /\ r.st.obs.passes = << keyOf(ITEM0_PRICE) >>
            /\ r.st.obs.pings = << >>
            /\ Has(r.st.componentSubscribers[storeOfRoot[CartRoot]], ComponentId(<< "h1" >>))
            /\ r.st.componentSubscribers[proxyCache[CartRoot].store] = EmptyMap)

\* root.<name> read with no scope active, and the handle it returns called
ReadAt(st, root, name) ==
    Then(Get(st, root, name), LAMBDA s, handle : LiveAccess(s, handle))

\* C36 (independence of roots): a getter read through either root returns
\* what that root's getter gives on that root's data, and the computeds a
\* write through one root marks Dirty are computeds of that root.
C36_RootsIndependent ==
    /\ \A root \in { CartRoot, OtherRoot }, name \in CartGetters :
           With(ReadAt(Engine, root, name), LAMBDA r :
               /\ ~r.thrown
               /\ r.val = RawGetter(heap, root, name).val
               /\ r.st.computedRegistry[computedKeyForPath(name)].run.recv = root)
    /\ \A root \in { CartRoot, OtherRoot }, w \in RootsWrites :
           With(WriteAt(Engine, root, w[1], w[2]), LAMBDA wr :
               \A c \in wr.st.obs.affected : computedRegistry[c].run.recv = root)

\* the divergence of C36 is reached: total was first read through the second
\* root and is Clean with that root's value, 1.1, while the first root's data
\* gives 55; the read of total through the first root returns 1.1 and runs
\* nothing, and the write taxRate = 0.2 through the first root marks the
\* entry Dirty, after which the first root's total is still 1.1.
C36_Case ==
    /\ IsClean(TOTAL)
    /\ computedRegistry[TOTAL].run.recv = OtherRoot
    /\ computedRegistry[TOTAL].last = Num(11)
    /\ RawGetter(heap, CartRoot, << "total" >>).val = Whole(55)
    /\ With(ReadAt(Engine, CartRoot, << "total" >>), LAMBDA r :
            r.val = Num(11) /\ RunsOf(r, TOTAL) = 0)
    /\ With(WriteAt(Engine, CartRoot, TAXRATE, Num(2)), LAMBDA wr :
            /\ TOTAL \in wr.st.obs.affected
            /\ With(ReadAt(Later(wr.st), CartRoot, << "total" >>), LAMBDA rd :
                   rd.val = Num(11) /\ RunsOf(rd, TOTAL) = 1))

\* the slots of the items array that hold an object
ItemSlots == { k \in 0..1 : /\ Has(heap[1].f, IndexKey(k))
                            /\ heap[1].f[IndexKey(k)].t = "ref" }

\* withComponentTracking(h, () => state.items[k].price)
TrackedPrice(h, k) ==
    withComponentTracking(Engine, h, Select(<< << "items" >>, IndexKey(k), << "price" >> >>),
                          CartRoot)

\* C37 (relocated objects read their own data): a tracked read of price
\* through the wrapper of the object now in slot k returns the price stored
\* in that object and records items.k.price, and subtotal read afterwards
\* is the sum over the elements now in the array.
C37_RelocatedReads ==
    /\ \A h \in Handles, k \in ItemSlots :
           With(TrackedPrice(h, k), LAMBDA r :
               /\ ~r.thrown
               /\ r.val = heap[heap[1].f[IndexKey(k)].n].f[<< "price" >>]
               /\ keyOf(<< << "items" >>, IndexKey(k), << "price" >> >>)
                      \in r.st.dependencyGraph[ComponentId(h)])
    /\ With(ReadAt(Engine, CartRoot, << "subtotal" >>), LAMBDA r :
           ~r.thrown /\ r.val = RawGetter(heap, CartRoot, << "subtotal" >>).val)

\* the divergence of C37 is reached: item b, wrapped at items.1, is the only
\* element of the array, in slot 0, with price 20 and quantity 2; a tracked
\* read of items[0].price returns undefined and records items.1.price alone,
\* and subtotal is NaN where the sum over the array is 40.
C37_Case ==
    /\ heap[1].f = (IndexKey(0) :> Ref(3)) @@ (LENGTH :> Whole(1))
    /\ heap[3].f[<< "price" >>] = Whole(20)
    /\ Has(proxyCache, 3) /\ proxyCache[3].base = ITEM1
    /\ With(TrackedPrice(<< "h1" >>, 0), LAMBDA r :
            /\ r.val = Undefined
            /\ r.st.dependencyGraph[ComponentId(<< "h1" >>)] \cap { keyOf(ITEM0_PRICE), keyOf(ITEM1_PRICE) }
                   = { keyOf(ITEM1_PRICE) })
    /\ RawGetter(heap, CartRoot, << "subtotal" >>).val = Whole(40)
    /\ With(ReadAt(Engine, CartRoot, << "subtotal" >>), LAMBDA r : r.val.t = "nan")

\* u1 = subscribeComponent(h, cb1); subscribeComponent(h, cb2); u1()
ReplacedThenFirstUnsubscribed(h, cb1, cb2) ==
    unsubscribe(subscribeComponent(subscribeComponent(Engine, CartRoot, h, cb1),
                                   CartRoot, h, cb2),
                CartRoot, h)

\* C38 (unsubscribe removes only its own registration): after cb2 replaced
\* cb1 for handle h, calling the function the first subscribeComponent
\* returned leaves cb2 registered, and a write pass whose notification
\* condition holds for h still calls it.
C38_UnsubscribeOwn ==
    \A h \in Handles, cb1 \in SubListeners, cb2 \in SubListeners :
        cb1 # cb2 =>
        With(ReplacedThenFirstUnsubscribed(h, cb1, cb2), LAMBDA s :
            /\ Has(s.componentSubscribers[CartRoot], ComponentId(h))
            /\ s.componentSubscribers[CartRoot][ComponentId(h)] = cb2
            /\ \A w \in SubWrites :
                   With(WriteAt(s, CartRoot, w[1], w[2]), LAMBDA wr :
                       shouldPing(DepsOf(h), keyOf(w[1]), wr.st.obs.affected)
                           => Pings(wr, h) >= 1))

\* the divergence of C38 is reached: h1 read total and has a listener; with
\* that listener replaced by the counting one, the write taxRate = 0.2 calls
\* it once; after the first registration's function is called h1 has no
\* listener and the same write calls nobody.
C38_Case ==
    /\ Subscribed(<< "h1" >>)
    /\ componentSubscribers[CartRoot][ComponentId(<< "h1" >>)] = Listener("react", Select(<< << "total" >> >>))
    /\ TOTAL \in DepsOf(<< "h1" >>)
    /\ Pings(WriteAt(subscribeComponent(Engine, CartRoot, << "h1" >>,
                                        Listener("count", Select(<< >>))),
                     CartRoot, TAXRATE, Num(2)), << "h1" >>) = 1
    /\ With(ReplacedThenFirstUnsubscribed(<< "h1" >>, Listener("react", Select(<< << "total" >> >>)),
                                          Listener("count", Select(<< >>))), LAMBDA s :
            /\ ~Has(s.componentSubscribers[CartRoot], ComponentId(<< "h1" >>))
            /\ WriteAt(s, CartRoot, TAXRATE, Num(2)).st.obs.pings = << >>)

\* state.items[0] = item, then state.first read with no scope active
FirstAfter(item) ==
    With(WriteAt(Engine, CartRoot, ITEM0, item), LAMBDA wr :
        ReadAt(Later(wr.st), CartRoot, << "first" >>))

\* C39 (node replacement reaches computeds that read only the node): once
\* first, which returns this.items[0] and reads no leaf, has been evaluated,
\* assigning slot 0 through the wrapper marks it Dirty, and its next read
\* returns the wrapper of the object assigned.
C39_NodeReplacement ==
    IsClean(FIRST) =>
        \A w \in NodeWrites :
            w[1] = ITEM0 =>
                /\ WriteAt(Engine, CartRoot, w[1], w[2]).st.computedRegistry[FIRST].dirty
                /\ FirstAfter(w[2]).val = ProxyOf(w[2].n)

\* the divergence of C39 is reached: first is Clean with the wrapper of item a
\* and an empty dependency set, item a is in slot 0; state.items[0] = b leaves
\* first Clean, and the next read of first evaluates nothing and returns the
\* wrapper of a.
C39_Case ==
    /\ IsClean(FIRST)
    /\ computedRegistry[FIRST].last = ProxyOf(2)
    /\ heap[1].f[IndexKey(0)] = Ref(2)
    /\ GetOr(dependencyGraph, ComputedId(FIRST), {}) = {}
    /\ ~WriteAt(Engine, CartRoot, ITEM0, Ref(3)).st.computedRegistry[FIRST].dirty
    /\ With(FirstAfter(Ref(3)), LAMBDA r :
            /\ r.val = ProxyOf(2)
            /\ RunsOf(r, FIRST) = 0
            /\ r.st.heap[1].f[IndexKey(0)] = Ref(3))

\* C40 (deferred computed handle under a computed scope): once shown, whose
\* evaluation called the handle of tax, has been evaluated, a write that
\* marks tax Dirty marks shown Dirty as well, and the next read of shown
\* evaluates it again and returns the tax of the data.
C40_HandleUnderComputed ==
    IsClean(SHOWN) =>
        \A w \in HandleWrites :
            With(WriteAt(Engine, CartRoot, w[1], w[2]), LAMBDA wr :
                TAX \in wr.st.obs.affected =>
                    /\ wr.st.computedRegistry[SHOWN].dirty
                    /\ With(ReadAt(Later(wr.st), CartRoot, << "shown" >>), LAMBDA rd :
                           /\ RunsOf(rd, SHOWN) = 1
                           /\ rd.val = RawGetter(wr.st.heap, CartRoot, << "tax" >>).val))

\* the divergence of C40 is reached: shown and tax are Clean with value 5, the
\* set of shown holds the computed key of tax; the write taxRate = 0.2 marks
\* tax Dirty and leaves shown Clean, after which tax reads 10 and shown reads
\* 5 without being evaluated.
C40_Case ==
    /\ IsClean(SHOWN) /\ IsClean(TAX)
    /\ computedRegistry[SHOWN].last = Whole(5)
    /\ TAX \in GetOr(dependencyGraph, ComputedId(SHOWN), {})
    /\ With(WriteAt(Engine, CartRoot, TAXRATE, Num(2)), LAMBDA wr :
            /\ TAX \in wr.st.obs.affected
            /\ ~wr.st.computedRegistry[SHOWN].dirty
            /\ ReadAt(Later(wr.st), CartRoot, << "tax" >>).val = Whole(10)
            /\ With(ReadAt(Later(wr.st), CartRoot, << "shown" >>), LAMBDA rd :
                   rd.val = Whole(5) /\ RunsOf(rd, SHOWN) = 0))

====
